---- MODULE Spec2Model ----
(***************************************************************************)
(* The SSH connection pool and the retrying reader entry points of         *)
(* src/actions/ssh-actions.ts (getConnectionFromPool, releaseConnection,   *)
(* readRemoteDirectory, getRemoteFileStats, getRemoteFileContent).         *)
(*                                                                         *)
(* The program runs on a single-threaded event loop: the code between two  *)
(* awaits is one atomic step, and every await is a point where another     *)
(* caller may run.  Each action below is one such step of one caller.      *)
(* The remote side (connection set-up, the liveness probe, SFTP            *)
(* initialisation, the directory or file read) answers nondeterministically.*)
(* Strings are sequences of tokens; String.includes is token membership.   *)
(***************************************************************************)
EXTENDS Integers, Sequences, FiniteSets, TLC

----------------------------------------------------------------------------
(* Bounds of the model *)

\* concurrent callers of the reader entry points
NumCallers == 2
\* reader calls made in one behaviour
MaxCalls == 2
\* SSH clients alive at one time
MaxClients == 7
\* reader calls in a behaviour of two concurrent callers
RaceCalls == 3
\* reader calls in a behaviour whose remote side never fails
HealthyCalls == 6
\* idle periods longer than the pool's time-to-live in one behaviour
MaxJumps == 1

\* applyChangesAction calls made in one behaviour
MaxApplyCalls == 2
\* reader calls in a behaviour about the pool key
KeyCalls == 3
\* reader calls in a behaviour that also applies change-sets
SharedCalls == 2
\* reader calls in a behaviour where a read may outlast the pool's time-to-live
SweepCalls == 3

\* ensureRemoteDirectoryExists calls made in one behaviour
MaxEnsureCalls == 2

\* calls of readDirectoryRecursive by the reader
MaxListCalls == 2

\* longest filePaths list handed to getFileStats and getRemoteFileStats
MaxStatFiles == 7

\* files read at once by getRemoteFileStats
BATCH_SIZE == 5

\* longest raw directory listing handed to the flat listing
MaxFlatLen == 3

\* 0o40000, the mode bit the listings test
S_IFDIR == 16384

Callers == 1..NumCallers
ClientIds == 1..MaxClients

----------------------------------------------------------------------------
(* Program constants *)

MAX_CONCURRENT_CONNECTIONS == 5
MAX_RETRIES == 2
DEFAULT_PORT == 22
IDLE_TTL_MS == 5 * 60 * 1000
BACKOFF_UNIT_MS == 1000

----------------------------------------------------------------------------
(* Inputs *)

\* port 0 stands for an absent port (config.port is optional); host and username
\* are texts, given as the sequences of their parts between and including each ":"
\* the calls the callers make: every entry point, every pool key, a path whose
\* text contains "timed out", with and without an identity file
Requests ==
  { [config |-> [host |-> <<"h">>, port |-> 0, username |-> <<"u">>, password |-> "p"],
     entry |-> "dir", path |-> <<"/srv/app">>, identityFile |-> FALSE],
    [config |-> [host |-> <<"h">>, port |-> 22, username |-> <<"u">>, password |-> "q"],
     entry |-> "content", path |-> <<"/srv/", "timed out", "/a.txt">>,
     identityFile |-> FALSE],
    [config |-> [host |-> <<"g">>, port |-> 22, username |-> <<"u">>, password |-> "p"],
     entry |-> "stats", path |-> <<"/srv/app/a.txt">>, identityFile |-> TRUE] }

\* calls whose configurations meet in the pool: the same account with two
\* passwords, and two accounts (user "22:u" on host fe80::1, user "u" on host
\* fe80::1:22) whose key texts read the same
KeyRequests ==
  { r \in Requests : r.config.host = <<"h">> /\ r.entry = "dir" }
  \cup { [config |-> [host |-> <<"h">>, port |-> 22, username |-> <<"u">>, password |-> "q"],
          entry |-> "dir", path |-> <<"/srv/app">>, identityFile |-> FALSE],
         [config |-> [host |-> <<"fe80", ":", ":", "1">>, port |-> 22,
                      username |-> <<"22", ":", "u">>, password |-> "p"],
          entry |-> "dir", path |-> <<"/srv/app">>, identityFile |-> FALSE],
         [config |-> [host |-> <<"fe80", ":", ":", "1", ":", "22">>, port |-> 0,
                      username |-> <<"u">>, password |-> "p"],
          entry |-> "dir", path |-> <<"/srv/app">>, identityFile |-> FALSE] }

NoRequest ==
  [config |-> [host |-> <<>>, port |-> 0, username |-> <<>>, password |-> ""],
   entry |-> "dir", path |-> <<>>, identityFile |-> FALSE]

\* messages of the transport when a connection cannot be established
ConnectErrors == {"connect ECONNREFUSED", "All configured authentication methods failed"}

\* err.message of a failed SFTP initialisation
SftpErrorTexts ==
  { <<"(SSH) ", "Channel open failure", ": ", "open failed">>,
    <<"open failed">>,
    <<"read: ", "connection reset">>,
    <<"Unable to start subsystem: sftp">> }

SftpOutcomes ==
  { [kind |-> "ok", text |-> <<>>],
    [kind |-> "timeout", text |-> <<>>],
    [kind |-> "throw", text |-> <<"Not connected">>] }
  \cup { [kind |-> "error", text |-> t] : t \in SftpErrorTexts }

BodyOutcomes == {"ok", "ENOENT", "EACCES"}

KeyOutcomes == {"ok", "ENOENT", "EISDIR"}

ProbeOutcomes == {"ok", "error", "timeout"}

----------------------------------------------------------------------------
(* Inputs of the change applier *)

\* A path is absolute or relative and has a sequence of segments: "/" and "." have
\* none, "/srv/app" is absolute with two, "proj" is relative with one.
Slash == [abs |-> TRUE, segs |-> <<>>]
Dot == [abs |-> FALSE, segs |-> <<>>]
Srv == [abs |-> TRUE, segs |-> <<"srv">>]
SrvApp == [abs |-> TRUE, segs |-> <<"srv", "app">>]
Proj == [abs |-> FALSE, segs |-> <<"proj">>]

\* the projectDirectory argument: a path, or text that trims to the empty string
NoDirectory == [blank |-> TRUE, path |-> Dot]
Directory(p) == [blank |-> FALSE, path |-> p]

\* one file record of a change-set; hasCode is FALSE when the record carries no
\* content, file_code = <<>> is the empty string
Change(op, segs, hasCode, code) ==
  [file_operation |-> op, file_path |-> segs, hasCode |-> hasCode, file_code |-> code]

\* change-set documents: wellFormed is FALSE when the top-level structure is absent
MalformedDoc == [wellFormed |-> FALSE, records |-> <<>>]
ScenarioDoc ==
  [wellFormed |-> TRUE,
   records |-> << Change("CREATE", <<"out", "new.txt">>, TRUE, <<"hi">>),
                  Change("DELETE", <<"missing.txt">>, FALSE, <<>>) >>]
ChainDoc ==
  [wellFormed |-> TRUE,
   records |-> << Change("CREATE", <<"a", "b", "c", "file.txt">>, TRUE, <<"hi">>) >>]
NoContentDoc ==
  [wellFormed |-> TRUE,
   records |-> << Change("CREATE", <<"t.txt">>, TRUE, <<"hi">>),
                  Change("UPDATE", <<"u.txt">>, FALSE, <<>>) >>]
EmptyContentDoc ==
  [wellFormed |-> TRUE,
   records |-> << Change("create", <<"t.txt">>, TRUE, <<"hi">>),
                  Change("UPDATE", <<"t.txt">>, TRUE, <<>>) >>]
DeleteDoc ==
  [wellFormed |-> TRUE,
   records |-> << Change("CREATE", <<"t.txt">>, TRUE, <<"hi">>),
                  Change("DELETE", <<"t.txt">>, FALSE, <<>>),
                  Change("delete", <<"t.txt">>, FALSE, <<>>),
                  Change("RENAME", <<"t.txt">>, FALSE, <<>>) >>]

UnknownKindDoc ==
  [wellFormed |-> TRUE,
   records |-> << Change("CREATE", <<"t.txt">>, TRUE, <<"hi">>),
                  Change("RENAME", <<"t.txt">>, TRUE, <<"x">>),
                  Change("CREATE", <<"u.txt">>, TRUE, <<"hi">>) >>]

\* the sshConfig argument; "" stands for an absent field, present = FALSE for null
NoSSHConfig ==
  [present |-> FALSE, host |-> "", port |-> 0, username |-> "", password |-> "",
   identityFile |-> ""]
PasswordConfig ==
  [present |-> TRUE, host |-> "h", port |-> 0, username |-> "u", password |-> "p",
   identityFile |-> ""]
KeyConfig ==
  [present |-> TRUE, host |-> "h", port |-> 22, username |-> "u", password |-> "",
   identityFile |-> "~/.ssh/id"]
NoAuthConfig ==
  [present |-> TRUE, host |-> "h", port |-> 22, username |-> "u", password |-> "",
   identityFile |-> ""]

ApplyRequest(doc, dir, env, isRemote, cfg) ==
  [xml |-> doc, projectDirectory |-> dir, env |-> env, isRemote |-> isRemote,
   sshConfig |-> cfg]

\* the calls of applyChangesAction: env is process.env.PROJECT_DIRECTORY
ApplyRequests ==
  { ApplyRequest(ChainDoc, Directory(root), NoDirectory, remote,
                 IF remote THEN PasswordConfig ELSE NoSSHConfig) :
      root \in {Slash, SrvApp, Proj}, remote \in BOOLEAN }
  \cup { ApplyRequest(doc, Directory(SrvApp), NoDirectory, remote,
                      IF remote THEN PasswordConfig ELSE NoSSHConfig) :
           doc \in {ScenarioDoc, DeleteDoc, UnknownKindDoc}, remote \in BOOLEAN }
  \cup { ApplyRequest(MalformedDoc, Directory(SrvApp), NoDirectory, TRUE, PasswordConfig),
         ApplyRequest(NoContentDoc, Directory(SrvApp), NoDirectory, FALSE, NoSSHConfig),
         ApplyRequest(EmptyContentDoc, Directory(SrvApp), NoDirectory, FALSE, NoSSHConfig),
         ApplyRequest(EmptyContentDoc, Directory(SrvApp), NoDirectory, TRUE, PasswordConfig),
         ApplyRequest(ScenarioDoc, NoDirectory, NoDirectory, FALSE, NoSSHConfig),
         ApplyRequest(ScenarioDoc, NoDirectory, Directory(SrvApp), FALSE, NoSSHConfig),
         ApplyRequest(ScenarioDoc, Directory(SrvApp), NoDirectory, TRUE, NoSSHConfig),
         ApplyRequest(ScenarioDoc, Directory(SrvApp), NoDirectory, TRUE, KeyConfig),
         ApplyRequest(ScenarioDoc, Directory(SrvApp), NoDirectory, TRUE, NoAuthConfig) }

NoApplyRequest == ApplyRequest(MalformedDoc, NoDirectory, NoDirectory, FALSE, NoSSHConfig)

\* outcomes of the file-system and SFTP requests of an operation
IoOutcomes == {"ok", "EACCES"}
UnlinkOutcomes == {"ok", "ENOENT", "EACCES", "closed"}

----------------------------------------------------------------------------
(* State *)

VARIABLES
  connectionPool,  \* the module-level array of PooledConnection
  clientState,     \* per client: "none", "connecting", "ready", "failed"
  clientError,     \* per client: the transport's error message, "" if none
  ended,           \* per client: number of client.end() calls made on it
  now,             \* Date.now()
  jumps,           \* number of long idle periods so far
  pc,              \* per caller: where its entry point is suspended
  req,             \* per caller: the arguments of its call
  retryCount,      \* per caller: local retryCount
  client,          \* per caller: local client (0 is null)
  connection,      \* per caller: the entry under probe in getConnectionFromPool
  creating,        \* per caller: the client under construction
  tnow,            \* per caller: `now` taken at the start of getConnectionFromPool
  wakeAt,          \* per caller: expiry of its backoff timer
  result,          \* per caller: the ActionState returned
  thrown,          \* per caller: message of the error caught last
  attempts,        \* per caller: loop iterations started in this call
  waits,           \* per caller: backoff delays requested in this call
  fails,           \* per caller: kinds of the failed attempts of this call:
                   \*   "transient" (SFTP init error classified for retry, or its
                   \*   10 s timeout), "sftpError" (other SFTP init error),
                   \*   "permanent" (the read failed after SFTP init), "connect"
                   \*   (no SSH session), "throw" (client.sftp threw), "key"
  borrowed,        \* per caller: client returned by getConnectionFromPool in this call
  fresh,           \* per caller: sessions created outside the pool in this call
  creates,         \* per caller: createSSHClient calls of its current checkout
  outstanding,     \* per client: checkouts that returned it and that the call which
                   \*   made them has not released
  holding,         \* per caller: the client its call checked out and has not released
  probeFailed,     \* clients whose liveness probe failed
  calls            \* reader calls started

VARIABLES
  apc,             \* applyChangesAction: "idle", "parsing", "applying", "returned", "thrown"
  areq,            \* its arguments
  changes,         \* the operation list the parser produced
  idx,             \* position in `changes` of the operation the loop is at (0: none yet)
  finalDirectory,  \* the resolved target root
  athrown,         \* message of the error applyChangesAction threw
  dirs,            \* directories of the target tree
  files,           \* files of the target tree, with their content
  lpc,             \* applyFileChanges: "none", "mkdir", "write", "rm", "done", "failed"
  rpc,             \* applyRemoteFileChanges: "none", "connecting", "sftpInit", "ensure",
                   \*   "write", "unlink", "over", "failed"
  promise,         \* the promise of the applier: "none", "pending", "resolved", "rejected"
  rejection,       \* message of the error the applier's promise was rejected with
  rready,          \* the session of the apply call reached 'ready'
  rended,          \* client.end() calls made on the session of the apply call
  rlost,           \* the connection of the session was lost after 'ready'
  startedOps,      \* positions of the operations handed to an applier in this batch
  connects,        \* client.connect calls of the current applyRemoteFileChanges call
  aclient,         \* the Client of the current applyRemoteFileChanges call (0: none)
  acalls,          \* applyChangesAction calls started
  files0           \* the files of the target tree when the current batch started

\* the remote tree a recursive listing walks: directories and files by path
ListRoot == "/r"
ListDirs == {"/r", "/r/d1", "/r/d1/e", "/r/d2"}
ListFiles == {"/r/f1", "/r/d1/g1", "/r/d1/e/h1"}
ListParent ==
  [x \in (ListDirs \cup ListFiles) \ {ListRoot} |->
     CASE x \in {"/r/d1", "/r/d2", "/r/f1"} -> "/r"
       [] x \in {"/r/d1/e", "/r/d1/g1"} -> "/r/d1"
       [] x = "/r/d1/e/h1" -> "/r/d1/e"]
\* what readdir answers for each directory, in order
ListChildren ==
  [d \in ListDirs |->
     CASE d = "/r" -> <<"/r/f1", "/r/d1", "/r/d2">>
       [] d = "/r/d1" -> <<"/r/d1/g1", "/r/d1/e">>
       [] d = "/r/d1/e" -> <<"/r/d1/e/h1">>
       [] OTHER -> <<>>]
SubDirs(d) == {x \in ListDirs \ {ListRoot} : ListParent[x] = d}
FilesIn(d) == {x \in ListFiles : ListParent[x] = d}

\* content: undefined, and what the remote file holds
Absent == <<>>
RemoteContent(f) == <<"content of", f>>

\* totals before any file is read, and the state before any call returned
NoTotals == [lines |-> 0, characters |-> 0, tokens |-> 0]
NoStats == [isSuccess |-> FALSE, lines |-> 0, characters |-> 0, tokens |-> 0, files |-> 0]

VARIABLES
  edirs,           \* ensureRemoteDirectoryExists: directories of the remote tree
  eframes,         \* the dirPath of each of its nested calls, outermost first
  epc,             \* the innermost call: "idle", "stat", "mkdir", "resolved", "rejected"
  emsg,            \* message of the error the outermost call was rejected with
  emkdirs,         \* the paths sftp.mkdir was requested for
  ecalls           \* outermost calls started

ensureVars == <<edirs, eframes, epc, emsg, emkdirs, ecalls>>

VARIABLES
  lstate,      \* directory -> position of its readDirectoryRecursive call
  lout,        \* directory -> what sftp.readdir answered
  fstate,      \* file -> position of its file promise
  fout,        \* file -> what readRemoteFileContent answered
  fcontent,    \* file -> the content variable of its file promise
  linc,        \* includeContent of the running call
  lresult,     \* the entries the outermost call resolved with
  lcalls       \* outermost calls so far
listVars == <<lstate, lout, fstate, fout, fcontent, linc, lresult, lcalls>>

VARIABLES
  spc,         \* position of the running statistics call
  smode,       \* "local": getFileStats, "remote": getRemoteFileStats
  spaths,      \* its filePaths
  si,          \* local: index of the file being read; remote: first index of the batch
  sflight,     \* indices whose read is in flight
  sout,        \* index -> outcome of its read
  stotal,      \* totalLines, totalCharacters, totalTokens
  sfileStats,  \* remote: paths pushed to fileStats
  sret         \* the ActionState returned
statsVars == <<spc, smode, spaths, si, sflight, sout, stotal, sfileStats, sret>>

VARIABLES
  dpc,         \* position of the flat listing
  dpath,       \* the listed path
  dlist,       \* the raw records sftp.readdir answered
  dentries     \* the entries the listing resolved with
flatVars == <<dpc, dpath, dlist, dentries>>

VARIABLES
  favStore,    \* localStorage["ssh-favorites"]: the stored list of favourites
  favSaved,    \* per name, the password the favourite was last saved with
  fnow         \* Date.now()
favVars == <<favStore, favSaved, fnow>>

\* the names the favourites are saved under
FavNames == {"s1", "s2"}

moreVars == <<flatVars, favVars>>

auxVars == <<ensureVars, listVars, statsVars, moreVars>>

batchVars == <<apc, areq, changes, idx, finalDirectory, athrown, startedOps, acalls,
               files0>>
treeVars == <<dirs, files>>
applierVars == <<lpc, rpc, promise, rejection, rready, rended, rlost, connects,
                 aclient>>
applyVars == <<batchVars, treeVars, applierVars>>

poolVars == <<connectionPool, clientState, clientError, ended>>
timeVars == <<now, jumps>>
callVars == <<pc, req, retryCount, client, connection, creating, tnow, wakeAt,
              result, thrown>>
histVars == <<attempts, waits, fails, borrowed, fresh, creates, outstanding, holding,
              probeFailed, calls>>
readerVars == <<poolVars, timeVars, callVars, histVars>>
vars == <<readerVars, applyVars, auxVars>>

----------------------------------------------------------------------------
(* Pure helpers *)

Includes(msg, tok) == \E i \in 1..Len(msg) : msg[i] = tok

Min(S) == CHOOSE x \in S : \A y \in S : x <= y

\* `${config.host}:${config.port || 22}:${config.username}`
ConfigKey(config) ==
  config.host
    \o <<":", ToString(IF config.port = 0 THEN DEFAULT_PORT ELSE config.port), ":">>
    \o config.username

IsOld(conn, t) == t - conn.lastUsed > IDLE_TTL_MS

\* the filter of the sweep: the entries kept
SweepKeeps(conn, t) == ~IsOld(conn, t) /\ conn.isValid

Swept(pool, t) ==
  LET Keep(conn) == SweepKeeps(conn, t) IN SelectSeq(pool, Keep)

\* the clients the sweep calls end() on
SweepEnds(pool, t) ==
  { pool[i].client : i \in { j \in 1..Len(pool) : IsOld(pool[j], t) \/ ~pool[j].isValid } }

\* connectionPool.find(...): the client of the first idle valid entry with the key, or 0
FindConnection(pool, config) ==
  LET hits == { i \in 1..Len(pool) :
                  /\ ~pool[i].inUse
                  /\ pool[i].isValid
                  /\ ConfigKey(pool[i].config) = ConfigKey(config) }
  IN IF hits = {} THEN 0 ELSE pool[Min(hits)].client

NewEntry(c, config, t) ==
  [client |-> c, lastUsed |-> t, inUse |-> TRUE, config |-> config, isValid |-> TRUE]

\* (variant of PoolAfterCreate that tracks the session whether or not it connected)
PoolAfterCreateAlways(pool, c, config, t, ok) == Append(pool, NewEntry(c, config, t))

\* the pool after createSSHClient settled inside getConnectionFromPool
PoolAfterCreate(pool, c, config, t, ok) ==
  IF ok THEN Append(pool, NewEntry(c, config, t)) ELSE pool

\* connection.lastUsed = now; connection.inUse = true (on the entry object of client c)
MarkInUse(pool, c, t) ==
  [i \in 1..Len(pool) |->
     IF pool[i].client = c
       THEN [pool[i] EXCEPT !.lastUsed = t, !.inUse = TRUE]
       ELSE pool[i]]

\* (variant of Discard that leaves the failed entry in the pool)
DiscardNothing(pool, c) == pool

\* connection.isValid = false; connectionPool.filter(conn => conn.isValid)
Discard(pool, c) ==
  LET Valid(conn) == conn.isValid /\ conn.client # c IN SelectSeq(pool, Valid)

\* releaseConnection(client)
ReleaseConnection(pool, c, t) ==
  [i \in 1..Len(pool) |->
     IF pool[i].client = c
       THEN [pool[i] EXCEPT !.inUse = FALSE, !.lastUsed = t]
       ELSE pool[i]]

\* the finally block of a reader: release only once the retry budget is used up
FinallyReleases(cl, rc) == cl # 0 /\ rc >= MAX_RETRIES

PoolAfterFinally(pool, cl, rc, t) ==
  IF FinallyReleases(cl, rc) THEN ReleaseConnection(pool, cl, t) ELSE pool

\* the checkouts still open after the finally block of a call that holds h
OutstandingAfterFinally(cl, rc, h) ==
  IF FinallyReleases(cl, rc) /\ h = cl
    THEN [outstanding EXCEPT ![cl] = @ - 1] ELSE outstanding

HoldingAfterFinally(cl, rc, h) == IF FinallyReleases(cl, rc) /\ h = cl THEN 0 ELSE h

End(e, S) == [c \in DOMAIN e |-> IF c \in S THEN e[c] + 1 ELSE e[c]]

\* (variant of Backoff with a constant delay)
BackoffFlat(rc) == BACKOFF_UNIT_MS

\* setTimeout(resolve, 1000 * retryCount)
Backoff(rc) == BACKOFF_UNIT_MS * rc

\* the classification of an SFTP initialisation error
ShouldRetry(text) ==
  \/ Includes(text, "Channel open failure")
  \/ Includes(text, "open failed")
  \/ Includes(text, "connection reset")

\* the condition of the retry branch after an attempt produced `res`
RetriesResult(res, rc) ==
  /\ ~res.isSuccess
  /\ rc < MAX_RETRIES
  /\ (Includes(res.message, "will retry") \/ Includes(res.message, "timed out"))

SftpTimeoutResult ==
  [isSuccess |-> FALSE,
   message |-> <<"SFTP initialization ", "timed out", " after 10 seconds">>]

SftpErrorResult(text, rc) ==
  IF ShouldRetry(text) /\ rc < MAX_RETRIES
    THEN [isSuccess |-> FALSE,
          message |-> <<"SFTP initialization failed (", "will retry", "): ">> \o text]
    ELSE [isSuccess |-> FALSE, message |-> <<"Failed to initialize SFTP: ">> \o text]

\* the message of the error the body of an entry point fails with
BodyError(r, out) ==
  IF r.entry = "content"
    THEN (IF out = "ENOENT" THEN <<"No such file: ">> ELSE <<"Permission denied: ">>)
         \o r.path
    ELSE (IF out = "ENOENT" THEN <<"No such file">> ELSE <<"Permission denied">>)

BodyResult(r, out) ==
  IF out = "ok"
    THEN [isSuccess |-> TRUE,
          message |-> IF r.entry = "dir" THEN <<"Directory read successfully">>
                      ELSE IF r.entry = "stats" THEN <<"File stats calculated successfully">>
                      ELSE <<"File content read successfully">>]
    ELSE [isSuccess |-> FALSE,
          message |-> (IF r.entry = "dir" THEN <<"Failed to read directory: ">>
                       ELSE IF r.entry = "stats" THEN <<"Failed to get file stats: ">>
                       ELSE <<"Failed to read file content: ">>)
                      \o BodyError(r, out)]

KeyError(out) ==
  IF out = "ENOENT" THEN <<"Identity file not found: ">>
  ELSE <<"Identity file path is a directory: ">>

NoResult == [isSuccess |-> FALSE, message |-> <<>>]

\* The Clients caller p holds no reference to any more when it goes on: the one
\* whose connection failed and, once a new call starts, the sessions its previous
\* call created outside the pool.  Their ids are free again.
Dropped(p) ==
  { c \in ClientIds : c = creating[p] /\ clientState[c] = "failed" }
  \cup (IF pc[p] = "returned" THEN fresh[p] ELSE {})

FreeIds(p) ==
  ({ c \in ClientIds : clientState[c] = "none" } \cup Dropped(p)) \ {aclient}

\* clientState and clientError after caller p dropped its failed Client, if any, and
\* constructed Client c (0: none)
Constructed(p, c) ==
  [d \in ClientIds |->
     IF d = c THEN "connecting" ELSE IF d \in Dropped(p) THEN "none" ELSE clientState[d]]

Forgotten(p, c) ==
  [d \in ClientIds |-> IF d = c \/ d \in Dropped(p) THEN "" ELSE clientError[d]]

\* the end() counts of the live Clients after the sweep ended those in S
EndedAfter(p, S) ==
  [d \in ClientIds |->
     IF d \in Dropped(p) THEN 0 ELSE IF d \in S THEN ended[d] + 1 ELSE ended[d]]

----------------------------------------------------------------------------
(* Initial state: an empty pool, no caller running, no change-set being applied *)

Init ==
  /\ connectionPool = <<>>
  /\ clientState = [c \in ClientIds |-> "none"]
  /\ clientError = [c \in ClientIds |-> ""]
  /\ ended = [c \in ClientIds |-> 0]
  /\ now = 0
  /\ jumps = 0
  /\ pc = [p \in Callers |-> "idle"]
  /\ req = [p \in Callers |-> NoRequest]
  /\ retryCount = [p \in Callers |-> 0]
  /\ client = [p \in Callers |-> 0]
  /\ connection = [p \in Callers |-> 0]
  /\ creating = [p \in Callers |-> 0]
  /\ tnow = [p \in Callers |-> 0]
  /\ wakeAt = [p \in Callers |-> 0]
  /\ result = [p \in Callers |-> NoResult]
  /\ thrown = [p \in Callers |-> <<>>]
  /\ attempts = [p \in Callers |-> 0]
  /\ waits = [p \in Callers |-> <<>>]
  /\ fails = [p \in Callers |-> <<>>]
  /\ borrowed = [p \in Callers |-> 0]
  /\ fresh = [p \in Callers |-> {}]
  /\ creates = [p \in Callers |-> 0]
  /\ outstanding = [c \in ClientIds |-> 0]
  /\ holding = [p \in Callers |-> 0]
  /\ probeFailed = {}
  /\ calls = 0
  /\ apc = "idle"
  /\ areq = NoApplyRequest
  /\ changes = <<>>
  /\ idx = 0
  /\ finalDirectory = Dot
  /\ athrown = <<>>
  /\ dirs = {Slash, Dot, Srv, SrvApp, Proj}
  /\ files = {}
  /\ lpc = "none"
  /\ rpc = "none"
  /\ promise = "none"
  /\ rejection = <<>>
  /\ rready = FALSE
  /\ rended = 0
  /\ rlost = FALSE
  /\ startedOps = <<>>
  /\ files0 = {}
  /\ connects = 0
  /\ aclient = 0
  /\ edirs = {Slash, Dot, Srv, SrvApp, Proj}
  /\ eframes = <<>>
  /\ epc = "idle"
  /\ emsg = <<>>
  /\ emkdirs = <<>>
  /\ ecalls = 0
  /\ lstate = [d \in ListDirs |-> "none"]
  /\ lout = [d \in ListDirs |-> "none"]
  /\ fstate = [f \in ListFiles |-> "none"]
  /\ fout = [f \in ListFiles |-> "none"]
  /\ fcontent = [f \in ListFiles |-> Absent]
  /\ linc = FALSE
  /\ lresult = <<>>
  /\ lcalls = 0
  /\ dpc = "idle"
  /\ dpath = ""
  /\ dlist = <<>>
  /\ dentries = <<>>
  /\ favStore = <<>>
  /\ favSaved = [n \in FavNames |-> <<>>]
  /\ fnow = 0
  /\ spc = "idle"
  /\ smode = "local"
  /\ spaths = <<>>
  /\ si = 0
  /\ sflight = {}
  /\ sout = <<>>
  /\ stotal = NoTotals
  /\ sfileStats = <<>>
  /\ sret = NoStats
  /\ acalls = 0

----------------------------------------------------------------------------
(* Fragments shared by the steps of a reader *)

\* createSSHClient(config) up to its await: a Client is constructed and connects
BeginCreate(p, at) ==
  /\ FreeIds(p) # {}
  /\ clientState' = Constructed(p, Min(FreeIds(p)))
  /\ clientError' = Forgotten(p, Min(FreeIds(p)))
  /\ creating' = [creating EXCEPT ![p] = Min(FreeIds(p))]
  /\ pc' = [pc EXCEPT ![p] = at]

\* getConnectionFromPool up to its first await: the sweep, the search, and the
\* start of either the liveness probe or createSSHClient
BeginCheckout(p, config) ==
  LET pool == Swept(connectionPool, now)
      found == FindConnection(pool, config)
  IN /\ connectionPool' = pool
     /\ ended' = EndedAfter(p, SweepEnds(connectionPool, now))
     /\ tnow' = [tnow EXCEPT ![p] = now]
     /\ IF found # 0
          THEN /\ connection' = [connection EXCEPT ![p] = found]
               /\ pc' = [pc EXCEPT ![p] = "probe"]
               /\ creates' = [creates EXCEPT ![p] = 0]
               /\ clientState' = Constructed(p, 0)
               /\ clientError' = Forgotten(p, 0)
               /\ creating' = [creating EXCEPT ![p] = 0]
          ELSE /\ BeginCreate(p, IF Len(pool) < MAX_CONCURRENT_CONNECTIONS
                                     THEN "createNew" ELSE "createOverLimit")
               /\ creates' = [creates EXCEPT ![p] = 1]
               /\ connection' = [connection EXCEPT ![p] = 0]

\* `return res` of a reader, with its finally block
ReturnWith(p, res, pool) ==
  /\ result' = [result EXCEPT ![p] = res]
  /\ pc' = [pc EXCEPT ![p] = "returned"]
  /\ connectionPool' = PoolAfterFinally(pool, client[p], retryCount[p], now)
  /\ outstanding' = OutstandingAfterFinally(client[p], retryCount[p], holding[p])
  /\ holding' = [holding EXCEPT ![p] = HoldingAfterFinally(client[p], retryCount[p], @)]

\* retryCount++ and the start of the backoff wait
BeginBackoff(p) ==
  /\ retryCount' = [retryCount EXCEPT ![p] = @ + 1]
  /\ wakeAt' = [wakeAt EXCEPT ![p] = now + Backoff(retryCount[p] + 1)]
  /\ waits' = [waits EXCEPT ![p] = Append(@, Backoff(retryCount[p] + 1))]
  /\ pc' = [pc EXCEPT ![p] = "backoff"]

\* the catch block of a reader, entered with an error of message msg
Catch(p, msg, kind, pool) ==
  /\ thrown' = [thrown EXCEPT ![p] = msg]
  /\ fails' = [fails EXCEPT ![p] = Append(@, kind)]
  /\ IF retryCount[p] < MAX_RETRIES
       THEN /\ BeginBackoff(p)
            /\ connectionPool' = pool
            /\ UNCHANGED <<result, outstanding, holding>>
       ELSE /\ ReturnWith(p, [isSuccess |-> FALSE,
                              message |-> <<"Failed to connect to SSH: ">> \o msg], pool)
            /\ UNCHANGED <<retryCount, wakeAt, waits>>

\* what a reader does with the result of an attempt: retry or return
AfterResult(p, res, kind) ==
  /\ fails' = [fails EXCEPT ![p] = IF res.isSuccess THEN @ ELSE Append(@, kind)]
  /\ IF RetriesResult(res, retryCount[p])
       THEN /\ BeginBackoff(p)
            /\ ended' = End(ended, {client[p]})
            /\ UNCHANGED <<result, connectionPool, outstanding, holding>>
       ELSE /\ ReturnWith(p, res, connectionPool)
            /\ UNCHANGED <<retryCount, wakeAt, waits, ended>>

----------------------------------------------------------------------------
(* Steps *)

\* a caller enters readRemoteDirectory, getRemoteFileStats or getRemoteFileContent
Call(p, r, limit) ==
  /\ pc[p] \in {"idle", "returned"}
  /\ calls < limit
  /\ calls' = calls + 1
  /\ req' = [req EXCEPT ![p] = r]
  /\ retryCount' = [retryCount EXCEPT ![p] = 0]
  /\ client' = [client EXCEPT ![p] = 0]
  /\ result' = [result EXCEPT ![p] = NoResult]
  /\ thrown' = [thrown EXCEPT ![p] = <<>>]
  /\ wakeAt' = [wakeAt EXCEPT ![p] = 0]
  /\ attempts' = [attempts EXCEPT ![p] = 1]
  /\ waits' = [waits EXCEPT ![p] = <<>>]
  /\ fails' = [fails EXCEPT ![p] = <<>>]
  /\ borrowed' = [borrowed EXCEPT ![p] = 0]
  /\ fresh' = [fresh EXCEPT ![p] = {}]
  /\ IF r.identityFile
       THEN /\ pc' = [pc EXCEPT ![p] = "readKey"]
            /\ clientState' = Constructed(p, 0)
            /\ clientError' = Forgotten(p, 0)
            /\ creating' = [creating EXCEPT ![p] = 0]
            /\ creates' = [creates EXCEPT ![p] = 0]
            /\ ended' = EndedAfter(p, {})
            /\ UNCHANGED <<connectionPool, connection, tnow>>
       ELSE BeginCheckout(p, r.config)
  /\ holding' = [holding EXCEPT ![p] = 0]
  /\ UNCHANGED <<now, jumps, outstanding, probeFailed>>
  /\ UNCHANGED <<applyVars, auxVars>>

\* (variant of InnerCatch for a reader without the try/catch around readPrivateKey)
InnerCatchMissing(out) == FALSE

\* the error of readPrivateKey is caught by the try/catch around the call, inside
\* the try block of the loop
InnerCatch(out) == TRUE

\* readPrivateKey(identityFile) settles
KeyDone(p, out) ==
  /\ pc[p] = "readKey"
  /\ IF out = "ok"
       THEN /\ IF retryCount[p] = 0
                 THEN BeginCheckout(p, req[p].config)
                 ELSE /\ BeginCreate(p, "createRetry")
                      /\ UNCHANGED <<connectionPool, ended, connection, tnow, creates>>
            /\ UNCHANGED <<result, outstanding, holding, fails, retryCount, wakeAt,
                           thrown, waits>>
       ELSE /\ IF InnerCatch(out)
                 THEN /\ ReturnWith(p, [isSuccess |-> FALSE,
                                        message |-> <<"Failed to read identity file: ">>
                                                    \o KeyError(out)], connectionPool)
                      /\ fails' = [fails EXCEPT ![p] = Append(@, "key")]
                      /\ UNCHANGED <<retryCount, wakeAt, thrown, waits>>
                 ELSE Catch(p, KeyError(out), "key", connectionPool)
            /\ UNCHANGED <<ended, clientState, clientError, creating, connection, tnow,
                           creates>>
  /\ UNCHANGED <<now, jumps, req, client, attempts, borrowed, fresh, probeFailed, calls>>
  /\ UNCHANGED <<applyVars, auxVars>>

\* createSSHClient settles: 'ready' (ok) or 'error' with message msg
CreateDone(p, ok, msg) ==
  /\ pc[p] \in {"createNew", "createAfterProbe", "createOverLimit", "createRetry"}
  /\ clientState' = [clientState EXCEPT ![creating[p]] = IF ok THEN "ready" ELSE "failed"]
  /\ clientError' = [clientError EXCEPT ![creating[p]] = IF ok THEN "" ELSE msg]
  /\ creating' = [creating EXCEPT ![p] = IF ok THEN 0 ELSE @]
  /\ tnow' = [tnow EXCEPT ![p] = 0]
  /\ IF pc[p] # "createRetry"
       THEN IF ok
              THEN /\ connectionPool' =
                        PoolAfterCreate(connectionPool, creating[p], req[p].config,
                                        tnow[p], TRUE)
                   /\ client' = [client EXCEPT ![p] = creating[p]]
                   /\ borrowed' = [borrowed EXCEPT ![p] = creating[p]]
                   /\ outstanding' = [outstanding EXCEPT ![creating[p]] = @ + 1]
                   /\ holding' = [holding EXCEPT ![p] = creating[p]]
                   /\ pc' = [pc EXCEPT ![p] = "sftp"]
                   /\ UNCHANGED <<retryCount, wakeAt, waits, result, fails, thrown, fresh>>
              ELSE /\ Catch(p, <<"SSH connection failed: ", msg>>, "connect",
                            PoolAfterCreate(connectionPool, creating[p], req[p].config,
                                            tnow[p], FALSE))
                   /\ UNCHANGED <<client, borrowed, fresh>>
       ELSE IF ok
              THEN /\ client' = [client EXCEPT ![p] = creating[p]]
                   /\ fresh' = [fresh EXCEPT ![p] = @ \cup {creating[p]}]
                   /\ pc' = [pc EXCEPT ![p] = "sftp"]
                   /\ UNCHANGED <<connectionPool, borrowed, outstanding, holding, retryCount,
                                  wakeAt, waits, result, fails, thrown>>
              ELSE /\ Catch(p, <<msg>>, "connect", connectionPool)
                   /\ UNCHANGED <<client, borrowed, fresh>>
  /\ UNCHANGED <<ended, now, jumps, req, connection, attempts, creates,
                 probeFailed, calls>>
  /\ UNCHANGED <<applyVars, auxVars>>

\* (variant of ProbePasses for a checkout that ignores the probe's answer)
ProbePassesAlways(out) == TRUE

\* the await of the probe returns normally: exec called back without an error
\* before the 2 s timer
ProbePasses(out) == out = "ok"

\* the liveness probe (exec "echo ping", 2 s timeout) of the matched entry settles.
\* A transport this program has ended does not answer.
ProbeDone(p, out) ==
  /\ pc[p] = "probe"
  /\ connection' = [connection EXCEPT ![p] = 0]
  /\ out = "ok" => ended[connection[p]] = 0
  /\ IF ProbePasses(out)
       THEN /\ connectionPool' = MarkInUse(connectionPool, connection[p], tnow[p])
            /\ client' = [client EXCEPT ![p] = connection[p]]
            /\ borrowed' = [borrowed EXCEPT ![p] = connection[p]]
            /\ outstanding' = [outstanding EXCEPT ![connection[p]] = @ + 1]
            /\ holding' = [holding EXCEPT ![p] = connection[p]]
            /\ pc' = [pc EXCEPT ![p] = "sftp"]
            /\ tnow' = [tnow EXCEPT ![p] = 0]
            /\ UNCHANGED <<ended, clientState, clientError, creating, creates, probeFailed>>
       ELSE /\ ended' = End(ended, {connection[p]})
            /\ connectionPool' = Discard(connectionPool, connection[p])
            /\ probeFailed' = probeFailed \cup {connection[p]}
            /\ BeginCreate(p, "createAfterProbe")
            /\ creates' = [creates EXCEPT ![p] = @ + 1]
            /\ UNCHANGED <<client, borrowed, outstanding, holding, tnow>>
  /\ UNCHANGED <<now, jumps, req, retryCount, wakeAt, result,
                 thrown, attempts, waits, fails, fresh, calls>>
  /\ UNCHANGED <<applyVars, auxVars>>

\* client.sftp(...) settles: the callback runs, the 10 s timer fires, or the call throws
SftpDone(p, o) ==
  /\ pc[p] = "sftp"
  /\ CASE o.kind = "ok" ->
            /\ ended[client[p]] = 0
            /\ pc' = [pc EXCEPT ![p] = "body"]
            /\ UNCHANGED <<connectionPool, ended, retryCount, wakeAt, result, thrown,
                           waits, fails, outstanding, holding>>
       [] o.kind = "throw" ->
            /\ Catch(p, o.text, "throw", connectionPool)
            /\ UNCHANGED ended
       [] o.kind = "timeout" ->
            /\ AfterResult(p, SftpTimeoutResult, "transient")
            /\ UNCHANGED thrown
       [] o.kind = "error" ->
            /\ AfterResult(p, SftpErrorResult(o.text, retryCount[p]),
                           IF ShouldRetry(o.text) THEN "transient" ELSE "sftpError")
            /\ UNCHANGED thrown
  /\ UNCHANGED <<clientState, clientError, now, jumps, req, client, connection,
                 creating, tnow, attempts, borrowed, fresh, creates, probeFailed, calls>>
  /\ UNCHANGED <<applyVars, auxVars>>

\* the directory listing, the statistics or the file read of the entry point settles
BodyDone(p, out) ==
  /\ pc[p] = "body"
  /\ req[p].entry = "stats" => out = "ok"
  /\ AfterResult(p, BodyResult(req[p], out), "permanent")
  /\ UNCHANGED <<clientState, clientError, now, jumps, req, client, connection,
                 creating, tnow, thrown, attempts, borrowed, fresh, creates,
                 probeFailed, calls>>
  /\ UNCHANGED <<applyVars, auxVars>>

\* the backoff timer fired: `continue` runs the finally block, then the next attempt starts
WaitDone(p) ==
  /\ pc[p] = "backoff"
  /\ now >= wakeAt[p]
  /\ connectionPool' = PoolAfterFinally(connectionPool, client[p], retryCount[p], now)
  /\ outstanding' = OutstandingAfterFinally(client[p], retryCount[p], holding[p])
  /\ holding' = [holding EXCEPT ![p] = HoldingAfterFinally(client[p], retryCount[p], @)]
  /\ attempts' = [attempts EXCEPT ![p] = @ + 1]
  /\ thrown' = [thrown EXCEPT ![p] = <<>>]
  /\ wakeAt' = [wakeAt EXCEPT ![p] = 0]
  /\ IF req[p].identityFile
       THEN /\ pc' = [pc EXCEPT ![p] = "readKey"]
            /\ clientState' = Constructed(p, 0)
            /\ clientError' = Forgotten(p, 0)
            /\ creating' = [creating EXCEPT ![p] = 0]
       ELSE BeginCreate(p, "createRetry")
  /\ UNCHANGED <<ended, now, jumps, req, retryCount, client, connection,
                 tnow, result, waits, fails, borrowed, fresh, creates, probeFailed, calls>>
  /\ UNCHANGED <<applyVars, auxVars>>

\* time passes until the earliest pending backoff timer expires
TimerFires ==
  LET pending == { wakeAt[p] : p \in { q \in Callers : pc[q] = "backoff" /\ wakeAt[q] > now } }
  IN /\ pending # {}
     /\ now' = Min(pending)
     /\ UNCHANGED <<jumps, poolVars, callVars, histVars, applyVars, auxVars>>

\* no call is in progress for longer than the pool's time-to-live
IdlePeriod ==
  /\ \A p \in Callers : pc[p] \in {"idle", "returned"}
  /\ jumps < MaxJumps
  /\ jumps' = jumps + 1
  /\ now' = now + IDLE_TTL_MS + 1
  /\ UNCHANGED <<poolVars, callVars, histVars, applyVars, auxVars>>

\* one caller, the whole environment
Next ==
  \/ \E r \in Requests : Call(1, r, MaxCalls)
  \/ \E out \in KeyOutcomes : KeyDone(1, out)
  \/ \E ok \in BOOLEAN, msg \in ConnectErrors : CreateDone(1, ok, msg)
  \/ \E out \in ProbeOutcomes : ProbeDone(1, out)
  \/ \E o \in SftpOutcomes : SftpDone(1, o)
  \/ \E out \in BodyOutcomes : BodyDone(1, out)
  \/ WaitDone(1)
  \/ TimerFires
  \/ IdlePeriod

Spec == Init /\ [][Next]_vars

\* two concurrent callers of readRemoteDirectory for the same account; the remote
\* side may fail a probe, make client.sftp throw on the first attempt of a call, or
\* refuse the connection of a retry
RaceRequests == { r \in Requests : r.config.host = <<"h">> /\ r.entry = "dir" }

\* createSSHClient settles; only the connection of a retry is refused
RaceCreateDone(p, ok) ==
  /\ ok \/ pc[p] = "createRetry"
  /\ CreateDone(p, ok, "connect ECONNREFUSED")

\* client.sftp(...) settles; it throws on the first attempt of a call only
RaceSftpDone(p, o) ==
  /\ o.kind = "ok" \/ (o.kind = "throw" /\ retryCount[p] = 0)
  /\ SftpDone(p, o)

NextRace ==
  \/ \E p \in Callers, r \in RaceRequests : Call(p, r, RaceCalls)
  \/ \E p \in Callers, ok \in BOOLEAN : RaceCreateDone(p, ok)
  \/ \E p \in Callers, out \in ProbeOutcomes : ProbeDone(p, out)
  \/ \E p \in Callers, o \in SftpOutcomes : RaceSftpDone(p, o)
  \/ \E p \in Callers : BodyDone(p, "ok")
  \/ \E p \in Callers : WaitDone(p)
  \/ TimerFires

SpecRace == Init /\ [][NextRace]_vars

\* one caller whose calls draw their configurations from KeyRequests, in the
\* environment of NextRace
NextKeys ==
  \/ \E r \in KeyRequests : Call(1, r, KeyCalls)
  \/ \E ok \in BOOLEAN : RaceCreateDone(1, ok)
  \/ \E out \in ProbeOutcomes : ProbeDone(1, out)
  \/ \E o \in SftpOutcomes : RaceSftpDone(1, o)
  \/ BodyDone(1, "ok")
  \/ WaitDone(1)
  \/ TimerFires

SpecKeys == Init /\ [][NextKeys]_vars

\* one caller; every connection is established, every SFTP session starts and
\* every read succeeds
NextHealthy ==
  \/ \E r \in Requests : Call(1, r, HealthyCalls)
  \/ KeyDone(1, "ok")
  \/ CreateDone(1, TRUE, "")
  \/ \E o \in { x \in SftpOutcomes : x.kind = "ok" } : SftpDone(1, o)
  \/ BodyDone(1, "ok")

SpecHealthy == Init /\ [][NextHealthy]_vars

\* the listing or the read of a caller's entry point takes longer than the
\* pool's time-to-live: no timer bounds it
LongRead ==
  /\ \E p \in Callers : pc[p] = "body"
  /\ jumps < MaxJumps
  /\ jumps' = jumps + 1
  /\ now' = now + IDLE_TTL_MS + 1
  /\ UNCHANGED <<poolVars, callVars, histVars, applyVars, auxVars>>

\* two callers for the same account on a healthy server, one of them slow
NextSweep ==
  \/ \E p \in Callers, r \in RaceRequests : Call(p, r, SweepCalls)
  \/ \E p \in Callers : CreateDone(p, TRUE, "")
  \/ \E p \in Callers, o \in { x \in SftpOutcomes : x.kind = "ok" } : SftpDone(p, o)
  \/ \E p \in Callers : BodyDone(p, "ok")
  \/ LongRead

SpecSweep == Init /\ [][NextSweep]_vars

----------------------------------------------------------------------------
(* The change applier: pure helpers *)

\* (variant of ToUpperCase in which every other kind reads as DELETE)
ToUpperCaseDefaultDelete(op) ==
  CASE op \in {"CREATE", "create"} -> "CREATE"
    [] op \in {"UPDATE", "update"} -> "UPDATE"
    [] OTHER -> "DELETE"

\* file_operation.toUpperCase(), over the kinds the documents use
ToUpperCase(op) ==
  CASE op \in {"CREATE", "create"} -> "CREATE"
    [] op \in {"UPDATE", "update"} -> "UPDATE"
    [] op \in {"DELETE", "delete"} -> "DELETE"
    [] OTHER -> op

NeedsContent(change) == ToUpperCase(change.file_operation) \in {"CREATE", "UPDATE"}

\* the parser's answer: an operation list, or none.  A document without the
\* top-level structure, or with a CREATE or UPDATE record that carries no content,
\* yields no list.
parseXmlString(xml) ==
  IF xml.wellFormed
     /\ \A i \in 1..Len(xml.records) :
          NeedsContent(xml.records[i]) => xml.records[i].hasCode
    THEN [isArray |-> TRUE, list |-> xml.records]
    ELSE [isArray |-> FALSE, list |-> <<>>]

\* projectDirectory && projectDirectory.trim() !== "" ? projectDirectory.trim()
\*                                                   : process.env.PROJECT_DIRECTORY
FinalDirectory(r) == IF ~r.projectDirectory.blank THEN r.projectDirectory ELSE r.env

\* path.join / path.posix.join of the target root and a relative file path
Join(root, segs) == [abs |-> root.abs, segs |-> root.segs \o segs]

\* dirname / path.posix.dirname
Dirname(p) ==
  IF p.segs = <<>> THEN p ELSE [p EXCEPT !.segs = SubSeq(@, 1, Len(@) - 1)]

\* a directory and all the directories above it
Ancestors(p) == { [p EXCEPT !.segs = SubSeq(@, 1, k)] : k \in 0..Len(p.segs) }

\* (variant of NoFileCode that accepts the empty string as content)
NoFileCodeAbsentOnly(change) == ~change.hasCode

\* !file_code
NoFileCode(change) == ~change.hasCode \/ change.file_code = <<>>

FileExists(fs, p) == \E f \in fs : f.path = p

\* (variant of WriteFile that writes nothing)
WriteNothing(fs, p, code) == fs

WriteFile(fs, p, code) ==
  { f \in fs : f.path # p } \cup { [path |-> p, content |-> code] }

RemoveFile(fs, p) == { f \in fs : f.path # p }

\* ensureRemoteDirectoryExists(sftp, dirPath) on a tree with directories ds and
\* files fs: the directories afterwards and the outcome.  sftp.stat succeeds on any
\* existing path; mkdirOk tells whether the server lets sftp.mkdir succeed.
RECURSIVE ensureRemoteDirectoryExists(_, _, _, _)
ensureRemoteDirectoryExists(ds, fs, dirPath, mkdirOk) ==
  IF dirPath \in ds \/ FileExists(fs, dirPath)
    THEN [ok |-> TRUE, dirs |-> ds, message |-> <<>>]
    ELSE LET parentDir == Dirname(dirPath)
         IN IF parentDir = dirPath \/ parentDir = Dot \/ parentDir = Slash
              THEN [ok |-> FALSE, dirs |-> ds,
                    message |-> <<"Cannot create directory ", dirPath>>]
              ELSE LET up == ensureRemoteDirectoryExists(ds, fs, parentDir, mkdirOk)
                   IN IF ~up.ok THEN up
                      ELSE IF mkdirOk
                        THEN [ok |-> TRUE, dirs |-> up.dirs \cup {dirPath},
                              message |-> <<>>]
                        ELSE [ok |-> FALSE, dirs |-> up.dirs,
                              message |-> <<"Error creating directory ", dirPath,
                                            ": ", "Permission denied">>]

\* for (const file of changes): the position after position i
NextIndex(i) == i + 1

\* the operation the loop is at, and its full path
CurrentChange == changes[idx]
FullPath == Join(finalDirectory, CurrentChange.file_path)

\* err.message of a failed sftp.unlink
UnlinkMessage(out) ==
  CASE out = "ENOENT" -> <<"No such file">>
    [] out = "EACCES" -> <<"Permission denied">>
    [] OTHER -> <<"No response from server">>

----------------------------------------------------------------------------
(* The change applier: steps *)

\* resolve() and reject(error) of the applier's promise: the first settlement wins
Resolve ==
  /\ promise' = IF promise = "pending" THEN "resolved" ELSE promise
  /\ UNCHANGED rejection

Reject(msg) ==
  /\ promise' = IF promise = "pending" THEN "rejected" ELSE promise
  /\ rejection' = IF promise = "pending" THEN msg ELSE rejection

\* (variant of ApplyThrow that records the error and lets the function go on)
ApplyGoOn(msg) ==
  /\ apc' = "applying"
  /\ athrown' = msg

\* (variant of ClientEnd for an applier that leaves the session open)
ClientEndSkipped(n) == n

\* client.end(): one more end issued on the client of the operation
ClientEnd(n) == n + 1

\* `throw new Error(msg)` in applyChangesAction
ApplyThrow(msg) ==
  /\ apc' = "thrown"
  /\ athrown' = msg

\* the UI calls applyChangesAction(xml, projectDirectory, isRemote, sshConfig)
ApplyCall(r) ==
  /\ apc \in {"idle", "returned", "thrown"}
  /\ lpc \in {"none", "done", "failed"}
  /\ rpc \in {"none", "over", "failed"}
  /\ acalls < MaxApplyCalls
  /\ acalls' = acalls + 1
  /\ files0' = files
  /\ areq' = r
  /\ apc' = "parsing"
  /\ changes' = <<>>
  /\ idx' = 0
  /\ finalDirectory' = Dot
  /\ athrown' = <<>>
  /\ startedOps' = <<>>
  /\ lpc' = "none"
  /\ rpc' = "none"
  /\ promise' = "none"
  /\ rejection' = <<>>
  /\ rready' = FALSE
  /\ rended' = 0
  /\ rlost' = FALSE
  /\ connects' = 0
  /\ aclient' = 0
  /\ UNCHANGED <<treeVars, readerVars, auxVars>>

\* (variant of InvalidChanges that accepts whatever the parser yields)
InvalidChangesNever(parsed) == FALSE

\* !changes || !Array.isArray(changes)
InvalidChanges(parsed) == ~parsed.isArray

\* parseXmlString settles; the request is checked
ParseDone ==
  /\ apc = "parsing"
  /\ LET parsed == parseXmlString(areq.xml)
         dir == FinalDirectory(areq)
     IN /\ changes' = parsed.list
        /\ IF InvalidChanges(parsed)
             THEN /\ ApplyThrow(<<"Invalid XML format. Could not find changed_files.">>)
                  /\ UNCHANGED finalDirectory
             ELSE IF dir.blank
               THEN /\ ApplyThrow(<<"No project directory provided and no fallback ",
                                    "found in environment.">>)
                    /\ UNCHANGED finalDirectory
               ELSE IF areq.isRemote /\ ~areq.sshConfig.present
                 THEN /\ ApplyThrow(<<"SSH configuration is required for remote ",
                                      "file operations.">>)
                      /\ finalDirectory' = dir.path
                 ELSE /\ apc' = "applying"
                      /\ finalDirectory' = dir.path
                      /\ UNCHANGED athrown
  /\ UNCHANGED <<areq, idx, startedOps, acalls, files0, treeVars, applierVars, readerVars, auxVars>>

\* applyFileChanges(change, projectDirectory) up to its first await
LocalStart(change) ==
  /\ IF NeedsContent(change)
       THEN IF NoFileCode(change)
              THEN /\ lpc' = "failed"
                   /\ promise' = "rejected"
                   /\ rejection' = <<"No file_code provided for ",
                                     ToUpperCase(change.file_operation),
                                     " operation on ", change.file_path>>
              ELSE /\ lpc' = "mkdir"
                   /\ promise' = "pending"
                   /\ rejection' = <<>>
       ELSE IF ToUpperCase(change.file_operation) = "DELETE"
         THEN /\ lpc' = "rm"
              /\ promise' = "pending"
              /\ rejection' = <<>>
         ELSE /\ lpc' = "done"
              /\ promise' = "resolved"
              /\ rejection' = <<>>
  /\ UNCHANGED <<rpc, rready, rended, rlost, connects, aclient>>

\* the ids no live Client has
UnusedIds == { c \in ClientIds : clientState[c] = "none" }

\* (variant of ApplySession that takes the session of a pool entry when there is one)
ApplySessionPooled(pool, unused) ==
  IF pool # <<>> THEN pool[1].client ELSE Min(unused)

\* const client = new Client(): an object no one else refers to
ApplySession(pool, unused) == Min(unused)

\* applyRemoteFileChanges(change, projectDirectory, sshConfig): the executor of its
\* promise, up to client.connect; keyOk tells whether readFileSync succeeds
RemoteStart(cfg, keyOk) ==
  /\ UnusedIds # {}
  /\ aclient' = ApplySession(connectionPool, UnusedIds)
  /\ rready' = FALSE
  /\ rended' = 0
  /\ rlost' = FALSE
  /\ IF cfg.password # "" \/ (cfg.identityFile # "" /\ keyOk)
       THEN /\ rpc' = "connecting"
            /\ connects' = 1
            /\ promise' = "pending"
            /\ rejection' = <<>>
       ELSE /\ rpc' = "none"
            /\ connects' = 0
            /\ promise' = "rejected"
            /\ rejection' = IF cfg.identityFile # ""
                              THEN <<"Error reading identity file: ", "ENOENT">>
                              ELSE <<"No authentication method provided">>
  /\ UNCHANGED lpc

\* (variant of Awaited for a loop that does not await the applier call)
NotAwaited == TRUE

\* the awaited applier call of the previous iteration has resolved
Awaited == promise = "resolved"

\* the loop of applyChangesAction goes on: the next operation is handed to its
\* applier, or the list is exhausted and the function returns
LoopNext(keyOk) ==
  /\ apc = "applying"
  /\ idx = 0 \/ Awaited
  /\ keyOk \/ (areq.isRemote /\ areq.sshConfig.password = ""
                 /\ areq.sshConfig.identityFile # "")
  /\ LET i == NextIndex(idx)
     IN IF i > Len(changes)
          THEN /\ apc' = "returned"
               /\ UNCHANGED <<idx, startedOps, applierVars>>
          ELSE /\ idx' = i
               /\ startedOps' = Append(startedOps, i)
               /\ UNCHANGED apc
               /\ IF areq.isRemote /\ areq.sshConfig.present
                    THEN RemoteStart(areq.sshConfig, keyOk)
                    ELSE LocalStart(changes[i])
  /\ UNCHANGED <<areq, changes, finalDirectory, athrown, acalls, files0, treeVars, readerVars, auxVars>>

\* the awaited applier call has rejected: applyChangesAction throws its error
LoopThrow ==
  /\ apc = "applying"
  /\ idx > 0
  /\ promise = "rejected"
  /\ ApplyThrow(rejection)
  /\ UNCHANGED <<areq, changes, idx, finalDirectory, startedOps, acalls, files0, treeVars,
                 applierVars, readerVars, auxVars>>

\* ensureDirectoryExists: fs.mkdir(dir, { recursive: true }) settles
LocalMkdirDone(out) ==
  /\ lpc = "mkdir"
  /\ out = "EEXIST" =>
       \E a \in Ancestors(Dirname(FullPath)) : FileExists(files, a)
  /\ CASE out = "ok" ->
            /\ dirs' = dirs \cup Ancestors(Dirname(FullPath))
            /\ lpc' = "write"
            /\ UNCHANGED <<promise, rejection>>
       [] out = "EEXIST" ->
            /\ lpc' = "write"
            /\ UNCHANGED <<dirs, promise, rejection>>
       [] OTHER ->
            /\ lpc' = "failed"
            /\ promise' = "rejected"
            /\ rejection' = <<"EACCES: permission denied, mkdir ", Dirname(FullPath)>>
            /\ UNCHANGED dirs
  /\ UNCHANGED <<batchVars, files, rpc, rready, rended, rlost, connects, aclient, readerVars, auxVars>>

\* fs.writeFile(fullPath, file_code, "utf-8") settles
LocalWriteDone(out) ==
  /\ lpc = "write"
  /\ out = "ok" => Dirname(FullPath) \in dirs
  /\ IF out = "ok"
       THEN /\ files' = WriteFile(files, FullPath, CurrentChange.file_code)
            /\ lpc' = "done"
            /\ promise' = "resolved"
            /\ UNCHANGED rejection
       ELSE /\ lpc' = "failed"
            /\ promise' = "rejected"
            /\ rejection' = <<"EACCES: permission denied, open ", FullPath>>
            /\ UNCHANGED files
  /\ UNCHANGED <<batchVars, dirs, rpc, rready, rended, rlost, connects, aclient, readerVars, auxVars>>

\* fs.rm(fullPath, { force: true }) settles
LocalRmDone(out) ==
  /\ lpc = "rm"
  /\ IF out = "ok"
       THEN /\ files' = RemoveFile(files, FullPath)
            /\ lpc' = "done"
            /\ promise' = "resolved"
            /\ UNCHANGED rejection
       ELSE /\ lpc' = "failed"
            /\ promise' = "rejected"
            /\ rejection' = <<"EACCES: permission denied, rm ", FullPath>>
            /\ UNCHANGED files
  /\ UNCHANGED <<batchVars, dirs, rpc, rready, rended, rlost, connects, aclient, readerVars, auxVars>>

\* client.connect settles: 'ready' (client.sftp is requested) or 'error'
ConnectDone(ok) ==
  /\ rpc = "connecting"
  /\ IF ok
       THEN /\ rready' = TRUE
            /\ rpc' = "sftpInit"
            /\ UNCHANGED <<promise, rejection>>
       ELSE /\ rpc' = "failed"
            /\ Reject(<<"SSH connection error: ", "connect ECONNREFUSED">>)
            /\ UNCHANGED rready
  /\ UNCHANGED <<batchVars, treeVars, lpc, rended, rlost, connects, aclient, readerVars, auxVars>>

\* the client emits 'error' after 'ready': the connection is lost and the requests
\* in flight will fail
ConnectionLost ==
  /\ rpc \in {"sftpInit", "ensure", "write", "unlink"}
  /\ ~rlost
  /\ rlost' = TRUE
  /\ Reject(<<"SSH connection error: ", "read ECONNRESET">>)
  /\ UNCHANGED <<batchVars, treeVars, lpc, rpc, rready, rended, connects, aclient, readerVars, auxVars>>

\* the callback of client.sftp runs; without an error handleOperation starts and
\* runs up to its first await, and for an operation it does not await its
\* .finally callback ends the client
RemoteSftpDone(ok) ==
  /\ rpc = "sftpInit"
  /\ ok => ~rlost
  /\ IF ~ok
       THEN /\ rended' = ClientEnd(rended)
            /\ Reject(<<"SFTP error: ", "Unable to start subsystem: sftp">>)
            /\ rpc' = "over"
       ELSE IF NeedsContent(CurrentChange)
         THEN IF NoFileCode(CurrentChange)
                THEN /\ Reject(<<"No file_code provided for ",
                                 CurrentChange.file_operation, " operation on ",
                                 CurrentChange.file_path>>)
                     /\ rended' = ClientEnd(rended)
                     /\ rpc' = "over"
                ELSE /\ rpc' = "ensure"
                     /\ UNCHANGED <<promise, rejection, rended>>
         ELSE IF ToUpperCase(CurrentChange.file_operation) = "DELETE"
           THEN /\ rpc' = "unlink"
                /\ rended' = ClientEnd(rended)
                /\ UNCHANGED <<promise, rejection>>
           ELSE /\ Resolve
                /\ rended' = ClientEnd(rended)
                /\ rpc' = "over"
  /\ UNCHANGED <<batchVars, treeVars, lpc, rready, rlost, connects, aclient, readerVars, auxVars>>

\* ensureRemoteDirectoryExists settles: the write stream is opened, or the
\* operation fails and the client is ended
EnsureDone(mkdirOk) ==
  /\ rpc = "ensure"
  /\ LET res == IF rlost
                  THEN [ok |-> FALSE, dirs |-> dirs,
                        message |-> <<"Error checking directory ", Dirname(FullPath),
                                      ": ", "No response from server">>]
                  ELSE ensureRemoteDirectoryExists(dirs, files, Dirname(FullPath),
                                                   mkdirOk)
     IN /\ dirs' = res.dirs
        /\ IF res.ok
             THEN /\ rpc' = "write"
                  /\ UNCHANGED <<promise, rejection, rended>>
             ELSE /\ Reject(res.message)
                  /\ rended' = ClientEnd(rended)
                  /\ rpc' = "over"
  /\ UNCHANGED <<batchVars, files, lpc, rready, rlost, connects, aclient, readerVars, auxVars>>

\* the write stream closes or fails; the client is ended
RemoteWriteDone(out) ==
  /\ rpc = "write"
  /\ out = "ok" => ~rlost
  /\ IF out = "ok"
       THEN /\ files' = WriteFile(files, FullPath, CurrentChange.file_code)
            /\ Resolve
       ELSE /\ Reject(<<"Error writing to ", FullPath, ": ", "Permission denied">>)
            /\ UNCHANGED files
  /\ rended' = ClientEnd(rended)
  /\ rpc' = "over"
  /\ UNCHANGED <<batchVars, dirs, lpc, rready, rlost, connects, aclient, readerVars, auxVars>>

\* the callback of sftp.unlink runs.  The client was ended while the request was in
\* flight, so the answer may be the server's or the failure of the closed channel.
UnlinkDone(out) ==
  /\ rpc = "unlink"
  /\ out = "ok" => FileExists(files, FullPath) /\ ~rlost
  /\ out = "ENOENT" => ~FileExists(files, FullPath) /\ ~rlost
  /\ out = "EACCES" => ~rlost
  /\ out = "closed" => rended > 0 \/ rlost
  /\ IF out = "ok"
       THEN /\ files' = RemoveFile(files, FullPath)
            /\ Resolve
       ELSE /\ UNCHANGED files
            /\ IF Includes(UnlinkMessage(out), "No such file")
                    \/ Includes(UnlinkMessage(out), "ENOENT")
                 THEN Resolve
                 ELSE Reject(<<"Error deleting ", FullPath, ": ">> \o UnlinkMessage(out))
  /\ rpc' = "over"
  /\ UNCHANGED <<batchVars, dirs, lpc, rready, rended, rlost, connects, aclient, readerVars, auxVars>>

\* the change applier and its environment
NextApply ==
  \/ \E r \in ApplyRequests : ApplyCall(r)
  \/ ParseDone
  \/ \E keyOk \in BOOLEAN : LoopNext(keyOk)
  \/ LoopThrow
  \/ \E out \in {"ok", "EEXIST", "EACCES"} : LocalMkdirDone(out)
  \/ \E out \in IoOutcomes : LocalWriteDone(out)
  \/ \E out \in IoOutcomes : LocalRmDone(out)
  \/ \E ok \in BOOLEAN : ConnectDone(ok)
  \/ ConnectionLost
  \/ \E ok \in BOOLEAN : RemoteSftpDone(ok)
  \/ \E mkdirOk \in BOOLEAN : EnsureDone(mkdirOk)
  \/ \E out \in IoOutcomes : RemoteWriteDone(out)
  \/ \E out \in UnlinkOutcomes : UnlinkDone(out)

SpecApply == Init /\ [][NextApply]_vars

\* the change applier when every request made on an open session is answered:
\* the callbacks of client.sftp, of the directory requests, of the write stream
\* and of sftp.unlink eventually run
SpecApplyFair ==
  /\ SpecApply
  /\ WF_vars(\E ok \in BOOLEAN : RemoteSftpDone(ok))
  /\ WF_vars(\E mkdirOk \in BOOLEAN : EnsureDone(mkdirOk))
  /\ WF_vars(\E out \in IoOutcomes : RemoteWriteDone(out))
  /\ WF_vars(\E out \in UnlinkOutcomes : UnlinkDone(out))

\* the change applier on a healthy host and network: every connection, SFTP and
\* file-system request succeeds, and sftp.unlink gets the answer the state of
\* the tree and of the session determines
NextApplyHealthy ==
  \/ \E r \in ApplyRequests : ApplyCall(r)
  \/ ParseDone
  \/ LoopNext(TRUE)
  \/ LoopThrow
  \/ LocalMkdirDone("ok")
  \/ LocalWriteDone("ok")
  \/ LocalRmDone("ok")
  \/ ConnectDone(TRUE)
  \/ RemoteSftpDone(TRUE)
  \/ EnsureDone(TRUE)
  \/ RemoteWriteDone("ok")
  \/ \E out \in {"ok", "ENOENT", "closed"} : UnlinkDone(out)

SpecApplyHealthy == Init /\ [][NextApplyHealthy]_vars

\* the remote change-sets applied while a reader is at work on the same account
SharedApplyRequests ==
  { r \in ApplyRequests :
      r.isRemote /\ r.sshConfig = PasswordConfig /\ r.xml \in {ScenarioDoc, ChainDoc}
        /\ r.projectDirectory = Directory(SrvApp) }

\* a reader and the change applier working at the same time on a healthy host:
\* the steps of the two interleave
NextShared ==
  \/ \E r \in RaceRequests : Call(1, r, SharedCalls)
  \/ CreateDone(1, TRUE, "")
  \/ \E o \in { x \in SftpOutcomes : x.kind = "ok" } : SftpDone(1, o)
  \/ BodyDone(1, "ok")
  \/ \E r \in SharedApplyRequests : ApplyCall(r)
  \/ ParseDone
  \/ LoopNext(TRUE)
  \/ ConnectDone(TRUE)
  \/ RemoteSftpDone(TRUE)
  \/ EnsureDone(TRUE)
  \/ RemoteWriteDone("ok")
  \/ \E out \in {"ENOENT", "closed"} : UnlinkDone(out)
  \/ LoopThrow

SpecShared == Init /\ [][NextShared]_vars

----------------------------------------------------------------------------
(* ensureRemoteDirectoryExists, request by request *)

\* the directories ensureRemoteDirectoryExists is called for
EnsureTargets ==
  { SrvApp,
    [abs |-> TRUE, segs |-> <<"srv", "app", "a">>],
    [abs |-> TRUE, segs |-> <<"srv", "app", "a", "b">>],
    [abs |-> TRUE, segs |-> <<"srv", "app", "c">>] }

\* the directories another apply call may create meanwhile
OtherTargets ==
  { [abs |-> TRUE, segs |-> <<"srv", "app", "a">>],
    [abs |-> TRUE, segs |-> <<"srv", "app", "a", "b">>],
    [abs |-> TRUE, segs |-> <<"srv", "app", "c">>] }

\* err.message of a failed sftp.stat or sftp.mkdir
StatMessage(out) == IF out = "ENOENT" THEN <<"No such file">> ELSE <<"Permission denied">>
MkdirMessage(out) == IF out = "exists" THEN <<"Failure">> ELSE <<"Permission denied">>

\* the innermost call: its dirPath
TopFrame == eframes[Len(eframes)]

\* (variant of FrameResolves in which the outermost call requests sftp.mkdir for
\* its own dirPath at once, before the calls between have created theirs)
FrameResolvesTargetFirst ==
  IF Len(eframes) = 1
    THEN /\ epc' = "resolved"
         /\ UNCHANGED <<eframes, emkdirs>>
    ELSE /\ eframes' = <<eframes[1]>>
         /\ emkdirs' = Append(emkdirs, eframes[1])
         /\ epc' = "mkdir"

\* the innermost call resolves: the outermost call is done, or the call around it
\* goes on in its .then callback and requests sftp.mkdir for its own dirPath
FrameResolves ==
  IF Len(eframes) = 1
    THEN /\ epc' = "resolved"
         /\ UNCHANGED <<eframes, emkdirs>>
    ELSE /\ eframes' = SubSeq(eframes, 1, Len(eframes) - 1)
         /\ emkdirs' = Append(emkdirs, eframes[Len(eframes) - 1])
         /\ epc' = "mkdir"

\* the innermost call rejects; every call around it passes the error on (.catch(reject))
FrameRejects(msg) ==
  /\ epc' = "rejected"
  /\ emsg' = msg
  /\ UNCHANGED <<eframes, emkdirs>>

\* ensureRemoteDirectoryExists(sftp, dirPath) is called: sftp.stat is requested
EnsureCall(d) ==
  /\ epc \in {"idle", "resolved", "rejected"}
  /\ ecalls < MaxEnsureCalls
  /\ ecalls' = ecalls + 1
  /\ eframes' = <<d>>
  /\ epc' = "stat"
  /\ emsg' = <<>>
  /\ emkdirs' = <<>>
  /\ UNCHANGED <<edirs, readerVars, applyVars, listVars, statsVars, moreVars>>

\* the callback of sftp.stat runs
StatDone(out) ==
  /\ epc = "stat"
  /\ out = "ok" <=> TopFrame \in edirs
  /\ IF out = "ok"
       THEN /\ FrameResolves
            /\ UNCHANGED emsg
       ELSE IF Includes(StatMessage(out), "No such file")
                 \/ Includes(StatMessage(out), "ENOENT")
         THEN LET parentDir == Dirname(TopFrame)
              IN IF parentDir = TopFrame \/ parentDir = Dot \/ parentDir = Slash
                   THEN FrameRejects(<<"Cannot create directory ", TopFrame>>)
                   ELSE /\ eframes' = Append(eframes, parentDir)
                        /\ UNCHANGED <<epc, emsg, emkdirs>>
         ELSE FrameRejects(<<"Error checking directory ", TopFrame, ": ">>
                             \o StatMessage(out))
  /\ UNCHANGED <<edirs, ecalls, readerVars, applyVars, listVars, statsVars, moreVars>>

\* the callback of sftp.mkdir runs
MkdirDone(out) ==
  /\ epc = "mkdir"
  /\ out = "ok" => TopFrame \notin edirs
  /\ out = "exists" <=> TopFrame \in edirs
  /\ IF out = "ok"
       THEN /\ edirs' = edirs \cup {TopFrame}
            /\ FrameResolves
            /\ UNCHANGED emsg
       ELSE /\ FrameRejects(<<"Error creating directory ", TopFrame, ": ">>
                              \o MkdirMessage(out))
            /\ UNCHANGED edirs
  /\ UNCHANGED <<ecalls, readerVars, applyVars, listVars, statsVars, moreVars>>

\* another apply call, on its own session, creates a directory of the same tree
OtherCreates(d) ==
  /\ d \notin edirs
  /\ Dirname(d) \in edirs
  /\ edirs' = edirs \cup {d}
  /\ UNCHANGED <<eframes, epc, emsg, emkdirs, ecalls, readerVars, applyVars, listVars, statsVars, moreVars>>

\* ensureRemoteDirectoryExists on a healthy server, while other apply calls work
\* on the same tree
NextEnsure ==
  \/ \E d \in EnsureTargets : EnsureCall(d)
  \/ \E out \in {"ok", "ENOENT"} : StatDone(out)
  \/ \E out \in {"ok", "exists"} : MkdirDone(out)
  \/ \E d \in OtherTargets : OtherCreates(d)

SpecEnsure == Init /\ [][NextEnsure]_vars

----------------------------------------------------------------------------
(* readDirectoryRecursive, request by request *)

\* what the file promise does with a failed content read: the catch logs it and
\* the promise goes on to return the entry
AfterReadErrorUncaught == "failed"
AfterReadError == "done"

\* one round of promise settlement: Promise.all rejects with the first rejected
\* member and is fulfilled when every member is; the readdir callback then
\* rejects or resolves its own promise
SettleOnce(ls, fs) ==
  [d \in ListDirs |->
     IF ls[d] # "waiting" THEN ls[d]
     ELSE IF \/ \E c \in SubDirs(d) : ls[c] = "rejected"
             \/ \E f \in FilesIn(d) : fs[f] = "failed"
       THEN "rejected"
     ELSE IF /\ \A c \in SubDirs(d) : ls[c] = "resolved"
             /\ \A f \in FilesIn(d) : fs[f] = "done"
       THEN "resolved"
     ELSE "waiting"]

\* settlement runs up the tree within the same turn of the event loop
RECURSIVE Settle(_, _, _)
Settle(ls, fs, n) ==
  IF n = 0 THEN ls ELSE Settle(SettleOnce(ls, fs), fs, n - 1)

\* entries of a resolved call: those of its subdirectories, flattened, and its files
RECURSIVE Flat(_)
Flat(results) == IF results = <<>> THEN <<>> ELSE Head(results) \o Flat(Tail(results))

\* the records of readdir(d) that are directories, and those that are not, in
\* the order of the answer
DirectoryItems(d) == SelectSeq(ListChildren[d], LAMBDA x : x \in ListDirs)
FileItems(d) == SelectSeq(ListChildren[d], LAMBDA x : x \in ListFiles)

\* (variant of Entries that puts a directory's own files first)
RECURSIVE EntriesFilesFirst(_, _)
EntriesFilesFirst(d, fc) ==
  [i \in 1..Len(FileItems(d)) |->
     [path |-> FileItems(d)[i], isDirectory |-> FALSE, content |-> fc[FileItems(d)[i]]]]
    \o Flat([i \in 1..Len(DirectoryItems(d)) |-> EntriesFilesFirst(DirectoryItems(d)[i], fc)])

\* entries.push(...directoryResults, ...fileResults): Promise.all keeps the order
\* of the promises, whatever the order in which they settle
RECURSIVE Entries(_, _)
Entries(d, fc) ==
  Flat([i \in 1..Len(DirectoryItems(d)) |-> Entries(DirectoryItems(d)[i], fc)])
    \o [i \in 1..Len(FileItems(d)) |->
          [path |-> FileItems(d)[i], isDirectory |-> FALSE, content |-> fc[FileItems(d)[i]]]]

\* something the running listing started is still in flight
ListInFlight ==
  \/ \E d \in ListDirs : lstate[d] = "readdir"
  \/ \E f \in ListFiles : fstate[f] = "reading"

\* the outermost call's promise settles with this step
Outcome(ls, fc) ==
  IF ls[ListRoot] = "resolved" /\ lstate[ListRoot] # "resolved"
    THEN Entries(ListRoot, fc)
    ELSE lresult

\* readDirectoryRecursive(sftp, ListRoot, includeContent) is called on a quiet session
ListCall(inc) ==
  /\ lcalls < MaxListCalls
  /\ lstate[ListRoot] \in {"none", "resolved", "rejected"}
  /\ ~ListInFlight
  /\ lcalls' = lcalls + 1
  /\ linc' = inc
  /\ lstate' = [d \in ListDirs |-> IF d = ListRoot THEN "readdir" ELSE "none"]
  /\ lout' = [d \in ListDirs |-> "none"]
  /\ fstate' = [f \in ListFiles |-> "none"]
  /\ fout' = [f \in ListFiles |-> "none"]
  /\ fcontent' = [f \in ListFiles |-> Absent]
  /\ lresult' = <<>>
  /\ UNCHANGED <<readerVars, applyVars, ensureVars, statsVars, moreVars>>

\* the callback of sftp.readdir(dirPath) runs
ReaddirDone(d, out) ==
  /\ lstate[d] = "readdir"
  /\ lout' = [lout EXCEPT ![d] = out]
  /\ IF out # "ok"
       THEN /\ lstate' = Settle([lstate EXCEPT ![d] = "rejected"], fstate,
                                Cardinality(ListDirs))
            /\ UNCHANGED fstate
       ELSE /\ fstate' = [f \in ListFiles |->
                            IF f \in FilesIn(d)
                              THEN IF linc THEN "reading" ELSE "done"
                              ELSE fstate[f]]
            /\ lstate' = Settle([x \in ListDirs |->
                                   IF x = d THEN "waiting"
                                   ELSE IF x \in SubDirs(d) THEN "readdir"
                                   ELSE lstate[x]],
                                fstate', Cardinality(ListDirs))
  /\ lresult' = Outcome(lstate', fcontent)
  /\ UNCHANGED <<fout, fcontent, linc, lcalls, readerVars, applyVars, ensureVars, statsVars, moreVars>>

\* readRemoteFileContent(sftp, fullPath) settles inside a file promise
ReadDone(f, out) ==
  /\ fstate[f] = "reading"
  /\ fout' = [fout EXCEPT ![f] = out]
  /\ fcontent' = [fcontent EXCEPT ![f] = IF out = "ok" THEN RemoteContent(f) ELSE Absent]
  /\ fstate' = [fstate EXCEPT ![f] = IF out = "ok" THEN "done" ELSE AfterReadError]
  /\ lstate' = Settle(lstate, fstate', Cardinality(ListDirs))
  /\ lresult' = Outcome(lstate', fcontent')
  /\ UNCHANGED <<lout, linc, lcalls, readerVars, applyVars, ensureVars, statsVars, moreVars>>

NextList ==
  \/ \E inc \in BOOLEAN : ListCall(inc)
  \/ \E d \in ListDirs, out \in {"ok", "fail"} : ReaddirDone(d, out)
  \/ \E f \in ListFiles, out \in {"ok", "fail"} : ReadDone(f, out)

SpecList == Init /\ [][NextList]_vars

----------------------------------------------------------------------------
(* getFileStats and getRemoteFileStats, read by read *)

\* filePaths of length n, and what each file holds, as characters
StatPaths(n) == [i \in 1..n |-> "f" \o ToString(i)]
StatSamples ==
  << <<"a", "=", "b", "\n", "{", "a", ".", "b", "}">>,
     <<>>,
     <<"a", " ", "b", "\n">> >>
StatContent(i) == StatSamples[((i - 1) % Len(StatSamples)) + 1]

\* /[\s\p{P}]+/u, /[{}\[\]()=+\-*/<>!&|^%]/g and the remote separator class,
\* over the characters the samples use
LocalSeparators == {" ", "\n", ".", "{", "}"}
CodeCharacters == {"{", "}", "="}
RemoteSeparators == {" ", "\n", ".", "{", "}", "="}

\* content.split(separators).filter(Boolean).length
Words(text, seps) ==
  Cardinality({i \in 1..Len(text) :
                 text[i] \notin seps /\ (i = 1 \/ text[i - 1] \in seps)})

\* content.split("\n").length and content.length
Lines(text) == Cardinality({i \in 1..Len(text) : text[i] = "\n"}) + 1
Characters(text) == Len(text)

estimateTokens(text) ==
  Words(text, LocalSeparators)
    + Cardinality({i \in 1..Len(text) : text[i] \in CodeCharacters})

Tokens(mode, text) ==
  IF mode = "local" THEN estimateTokens(text) ELSE Words(text, RemoteSeparators)

RECURSIVE SumSeq(_)
SumSeq(q) == IF q = <<>> THEN 0 ELSE q[1] + SumSeq(Tail(q))

\* filePaths.slice(i, i + BATCH_SIZE): the last index of the batch that starts at i
BatchEndAll(i, n) == n
BatchEnd(i, n) == Min({i + BATCH_SIZE - 1, n})

\* totals after the results of the indices from..to are added
AddResults(tot, mode, out, from, to) ==
  LET ok(k) == out[from + k - 1] = "ok"
      c(k) == StatContent(from + k - 1)
  IN [lines |-> tot.lines
         + SumSeq([k \in 1..(to - from + 1) |-> IF ok(k) THEN Lines(c(k)) ELSE 0]),
      characters |-> tot.characters
         + SumSeq([k \in 1..(to - from + 1) |-> IF ok(k) THEN Characters(c(k)) ELSE 0]),
      tokens |-> tot.tokens
         + SumSeq([k \in 1..(to - from + 1) |-> IF ok(k) THEN Tokens(mode, c(k)) ELSE 0])]

\* the data of the success result
StatsResult(mode, tot, paths, fstats) ==
  [isSuccess |-> TRUE, lines |-> tot.lines, characters |-> tot.characters,
   tokens |-> tot.tokens,
   files |-> IF mode = "local" THEN Len(paths) ELSE Len(fstats)]

\* getFileStats(filePaths) is called, or the sftp callback of getRemoteFileStats
\* starts on filePaths
StatsCall(mode, n) ==
  /\ spc \in {"idle", "returned"}
  /\ smode' = mode
  /\ spaths' = StatPaths(n)
  /\ sout' = [i \in 1..n |-> "none"]
  /\ stotal' = NoTotals
  /\ sfileStats' = <<>>
  /\ si' = 1
  /\ IF n = 0
       THEN /\ spc' = "returned"
            /\ sflight' = {}
            /\ sret' = StatsResult(mode, NoTotals, <<>>, <<>>)
       ELSE /\ spc' = "reading"
            /\ sflight' = IF mode = "local" THEN {1} ELSE 1..BatchEnd(1, n)
            /\ sret' = NoStats
  /\ UNCHANGED <<readerVars, applyVars, ensureVars, listVars, moreVars>>

\* getFileStats: fs.readFile of the current file settles
LocalReadDone(out) ==
  /\ spc = "reading"
  /\ smode = "local"
  /\ sflight = {si}
  /\ sout' = [sout EXCEPT ![si] = out]
  /\ stotal' = AddResults(stotal, smode, sout', si, si)
  /\ IF si = Len(spaths)
       THEN /\ spc' = "returned"
            /\ sflight' = {}
            /\ sret' = StatsResult(smode, stotal', spaths, sfileStats)
            /\ UNCHANGED si
       ELSE /\ si' = si + 1
            /\ sflight' = {si + 1}
            /\ UNCHANGED <<spc, sret>>
  /\ UNCHANGED <<smode, spaths, sfileStats, readerVars, applyVars, ensureVars, listVars, moreVars>>

\* getRemoteFileStats: readRemoteFileContent of one file of the batch settles;
\* with the last one Promise.all resolves, the results are added and the next
\* batch starts or the call resolves
RemoteReadDone(i, out) ==
  /\ spc = "reading"
  /\ smode = "remote"
  /\ i \in sflight
  /\ sout' = [sout EXCEPT ![i] = out]
  /\ IF sflight # {i}
       THEN /\ sflight' = sflight \ {i}
            /\ UNCHANGED <<spc, si, stotal, sfileStats, sret>>
       ELSE LET last == BatchEnd(si, Len(spaths))
                next == si + BATCH_SIZE
            IN /\ stotal' = AddResults(stotal, smode, sout', si, last)
               /\ sfileStats' = sfileStats \o
                    SelectSeq([k \in 1..(last - si + 1) |->
                                 IF sout'[si + k - 1] = "ok"
                                   THEN spaths[si + k - 1] ELSE ""],
                              LAMBDA p : p # "")
               /\ IF next <= Len(spaths)
                    THEN /\ si' = next
                         /\ sflight' = next..BatchEnd(next, Len(spaths))
                         /\ UNCHANGED <<spc, sret>>
                    ELSE /\ spc' = "returned"
                         /\ sflight' = {}
                         /\ sret' = StatsResult(smode, stotal', spaths, sfileStats')
                         /\ UNCHANGED si
  /\ UNCHANGED <<smode, spaths, readerVars, applyVars, ensureVars, listVars, moreVars>>

NextStats ==
  \/ \E mode \in {"local", "remote"}, n \in 0..MaxStatFiles : StatsCall(mode, n)
  \/ \E out \in {"ok", "fail"} : LocalReadDone(out)
  \/ \E i \in 1..MaxStatFiles, out \in {"ok", "fail"} : RemoteReadDone(i, out)

SpecStats == Init /\ [][NextStats]_vars

----------------------------------------------------------------------------
(* The flat listing of readRemoteDirectory *)

\* raw records of sftp.readdir; an attribute the server left out is <<>>
FlatRecords ==
  { [filename |-> "a.txt", mode |-> <<33188>>, size |-> <<5>>, mtime |-> <<7>>],
    [filename |-> "sub",   mode |-> <<16877>>, size |-> <<>>,  mtime |-> <<>>],
    [filename |-> "link",  mode |-> <<41471>>, size |-> <<0>>, mtime |-> <<7>>],
    [filename |-> "sock",  mode |-> <<49645>>, size |-> <<>>,  mtime |-> <<0>>],
    [filename |-> "sda",   mode |-> <<25008>>, size |-> <<5>>, mtime |-> <<>>],
    [filename |-> "tty",   mode |-> <<8592>>,  size |-> <<5>>, mtime |-> <<7>>],
    [filename |-> "raw",   mode |-> <<>>,      size |-> <<5>>, mtime |-> <<7>>] }

RECURSIVE FlatLists(_)
FlatLists(n) ==
  IF n = 0 THEN {<<>>}
  ELSE FlatLists(n - 1)
         \cup {Append(l, r) : l \in {x \in FlatLists(n - 1) : Len(x) = n - 1},
                              r \in FlatRecords}

\* a & b on non-negative integers
RECURSIVE BitAnd(_, _)
BitAnd(a, b) ==
  IF a = 0 \/ b = 0 THEN 0
  ELSE (a % 2) * (b % 2) + 2 * BitAnd(a \div 2, b \div 2)

\* (variant of OrZero whose default is 1)
OrOne(attr) == IF attr = <<>> \/ attr[1] = 0 THEN 1 ELSE attr[1]

\* attr || 0
OrZero(attr) == IF attr = <<>> \/ attr[1] = 0 THEN 0 ELSE attr[1]

\* item.attrs.mode ? (item.attrs.mode & 0o40000) !== 0 : false
IsDirectory(mode) ==
  IF mode # <<>> /\ mode[1] # 0 THEN BitAnd(mode[1], S_IFDIR) # 0 ELSE FALSE

\* the entry a raw record is mapped to; modifyTime in milliseconds since the epoch
FlatEntry(item, fullPath) ==
  [name |-> item.filename,
   path |-> fullPath \o "/" \o item.filename,
   isDirectory |-> IsDirectory(item.mode),
   size |-> OrZero(item.size),
   modifyTime |-> OrZero(item.mtime) * 1000]

\* list.map(...)
FlatEntries(list, fullPath) == [i \in 1..Len(list) |-> FlatEntry(list[i], fullPath)]

\* sftp.readdir(fullPath) answers with a list: the listing resolves with its entries
FlatListed(list, fullPath) ==
  /\ dpc = "idle"
  /\ dpc' = "listed"
  /\ dpath' = fullPath
  /\ dlist' = list
  /\ dentries' = FlatEntries(list, fullPath)
  /\ UNCHANGED <<readerVars, applyVars, ensureVars, listVars, statsVars, favVars>>

\* sftp.readdir(fullPath) answers with an error: the listing rejects
FlatFailed(fullPath) ==
  /\ dpc = "idle"
  /\ dpc' = "failed"
  /\ dpath' = fullPath
  /\ dlist' = <<>>
  /\ dentries' = <<>>
  /\ UNCHANGED <<readerVars, applyVars, ensureVars, listVars, statsVars, favVars>>

\* the caller has taken the result; the next listing may start
FlatReturned ==
  /\ dpc \in {"listed", "failed"}
  /\ dpc' = "idle"
  /\ dpath' = ""
  /\ dlist' = <<>>
  /\ dentries' = <<>>
  /\ UNCHANGED <<readerVars, applyVars, ensureVars, listVars, statsVars, favVars>>

NextFlat ==
  \/ \E list \in FlatLists(MaxFlatLen), fullPath \in {"/srv", "/srv/app"} :
       FlatListed(list, fullPath)
  \/ \E fullPath \in {"/srv", "/srv/app"} : FlatFailed(fullPath)
  \/ FlatReturned

SpecFlat == Init /\ [][NextFlat]_vars

----------------------------------------------------------------------------
(* The favourites kept in localStorage, and the cipher their passwords pass *)

\* the calls a run may make, each taking one tick of Date.now()
MaxFavTime == 3

\* a string is the sequence of its char codes; <<>> is also the absent password

\* "xml-parser-app-key"
ENCRYPTION_KEY ==
  <<120, 109, 108, 45, 112, 97, 114, 115, 101, 114, 45, 97, 112, 112, 45, 107, 101, 121>>

\* a ^ b on non-negative integers
Xor(a, b) == a + b - 2 * BitAnd(a, b)

\* key.reduce((a, b) => a ^ b, char)
RECURSIVE Reduce(_, _)
Reduce(key, char) ==
  IF key = <<>> THEN char ELSE Reduce(Tail(key), Xor(char, Head(key)))

applySaltToChar(char) == Reduce(ENCRYPTION_KEY, char)

\* the char code of a hex digit as toString(16) writes it
HexDigit(d) == IF d < 10 THEN 48 + d ELSE 87 + d

\* ("0" + Number(n).toString(16)).substr(-2): the last two hex digits of n
byteHex(n) == <<HexDigit((n % 256) \div 16), HexDigit(n % 16)>>

\* the value of a hex digit, -1 for any other char
HexValue(c) ==
  IF c >= 48 /\ c <= 57 THEN c - 48
  ELSE IF c >= 97 /\ c <= 102 THEN c - 87
  ELSE IF c >= 65 /\ c <= 70 THEN c - 55
  ELSE -1

\* parseInt(hex, 16) of a chunk of one or two chars, none of them blank or a
\* sign: the leading hex digits; NaN, which ^ reads as 0, when there is none
parseInt16(hex) ==
  IF HexValue(hex[1]) = -1 THEN 0
  ELSE IF Len(hex) = 2 /\ HexValue(hex[2]) # -1
    THEN 16 * HexValue(hex[1]) + HexValue(hex[2])
  ELSE HexValue(hex[1])

\* encoded.match(/.{1,2}/g)
RECURSIVE hexChars(_)
hexChars(encoded) ==
  IF Len(encoded) <= 2 THEN (IF encoded = <<>> THEN <<>> ELSE <<encoded>>)
  ELSE <<SubSeq(encoded, 1, 2)>> \o hexChars(SubSeq(encoded, 3, Len(encoded)))

\* encrypt(text)
RECURSIVE encrypt(_)
encrypt(text) ==
  IF text = <<>> THEN <<>>
  ELSE byteHex(applySaltToChar(Head(text))) \o encrypt(Tail(text))

\* decrypt(encoded)
decrypt(encoded) ==
  LET chunks == hexChars(encoded)
  IN [k \in 1..Len(chunks) |-> applySaltToChar(parseInt16(chunks[k]))]

\* the passwords the favourites are saved with: none, "pw", "a1", "€"
FavPasswords == { <<>>, <<112, 119>>, <<97, 49>>, <<8364>> }

\* the directories the update calls record
FavDirectories == {"/srv/app"}

\* server.password ? decrypt(server.password) : undefined
Decrypted(f) == [f EXCEPT !.password = IF @ # <<>> THEN decrypt(@) ELSE <<>>]

\* f.password ? encrypt(f.password) : undefined
Encrypted(f) == [f EXCEPT !.password = IF @ # <<>> THEN encrypt(@) ELSE <<>>]

\* getFavoriteServers() on the stored list
getFavoriteServers(stored) == [i \in 1..Len(stored) |-> Decrypted(stored[i])]

\* favorites.some((f) => f.name === name)
SomeNamed(favorites, name) == \E i \in 1..Len(favorites) : favorites[i].name = name

\* addFavoriteServer(server), server carrying a name and a password
addFavoriteServer(name, password) ==
  LET favorites == getFavoriteServers(favStore)
      serverToSave == [name |-> name,
                       password |-> IF password # <<>> THEN encrypt(password) ELSE <<>>,
                       lastUsed |-> fnow',
                       lastDirectory |-> "",
                       lastRootDirectory |-> ""]
  IN /\ fnow < MaxFavTime
     /\ fnow' = fnow + 1
     /\ favStore' = IF ~SomeNamed(favorites, name)
                      THEN Append(favorites, serverToSave)
                      ELSE [i \in 1..Len(favorites) |->
                              IF favorites[i].name = name THEN serverToSave
                              ELSE favorites[i]]
     /\ favSaved' = [favSaved EXCEPT ![name] = password]
     /\ UNCHANGED <<readerVars, applyVars, ensureVars, listVars, statsVars, flatVars>>

\* updateServerLastUsed(name)
updateServerLastUsed(name) ==
  LET favorites == getFavoriteServers(favStore)
  IN /\ fnow < MaxFavTime
     /\ fnow' = fnow + 1
     /\ favStore' = [i \in 1..Len(favorites) |->
                       IF favorites[i].name = name
                         THEN Encrypted([favorites[i] EXCEPT !.lastUsed = fnow'])
                         ELSE Encrypted(favorites[i])]
     /\ UNCHANGED <<favSaved, readerVars, applyVars, ensureVars, listVars, statsVars, flatVars>>

\* updateServerLastDirectory(name, directory)
updateServerLastDirectory(name, directory) ==
  LET favorites == getFavoriteServers(favStore)
  IN /\ fnow < MaxFavTime
     /\ fnow' = fnow + 1
     /\ favStore' = [i \in 1..Len(favorites) |->
                       IF favorites[i].name = name
                         THEN Encrypted([favorites[i] EXCEPT !.lastDirectory = directory,
                                                             !.lastUsed = fnow'])
                         ELSE Encrypted(favorites[i])]
     /\ UNCHANGED <<favSaved, readerVars, applyVars, ensureVars, listVars, statsVars, flatVars>>

\* updateServerLastRootDirectory(name, rootDirectory); "" is null
updateServerLastRootDirectory(name, rootDirectory) ==
  LET favorites == getFavoriteServers(favStore)
  IN /\ fnow < MaxFavTime
     /\ fnow' = fnow + 1
     /\ favStore' = [i \in 1..Len(favorites) |->
                       IF favorites[i].name = name
                         THEN Encrypted([favorites[i] EXCEPT !.lastRootDirectory = rootDirectory,
                                                             !.lastUsed = fnow'])
                         ELSE Encrypted(favorites[i])]
     /\ UNCHANGED <<favSaved, readerVars, applyVars, ensureVars, listVars, statsVars, flatVars>>

\* removeFavoriteServer(name)
removeFavoriteServer(name) ==
  LET favorites == getFavoriteServers(favStore)
      filtered == SelectSeq(favorites, LAMBDA f : f.name # name)
  IN /\ fnow < MaxFavTime
     /\ fnow' = fnow + 1
     /\ favStore' = [i \in 1..Len(filtered) |-> Encrypted(filtered[i])]
     /\ favSaved' = [favSaved EXCEPT ![name] = <<>>]
     /\ UNCHANGED <<readerVars, applyVars, ensureVars, listVars, statsVars, flatVars>>

\* renameFavoriteServer(oldName, newName), the names differing
renameFavoriteServer(oldName, newName) ==
  LET favorites == getFavoriteServers(favStore)
  IN /\ oldName # newName
     /\ fnow < MaxFavTime
     /\ fnow' = fnow + 1
     /\ IF SomeNamed(favorites, newName)
          THEN UNCHANGED <<favStore, favSaved>>
          ELSE /\ favStore' = [i \in 1..Len(favorites) |->
                                 IF favorites[i].name = oldName
                                   THEN Encrypted([favorites[i] EXCEPT !.name = newName])
                                   ELSE Encrypted(favorites[i])]
               /\ favSaved' = IF SomeNamed(favorites, oldName)
                                THEN [favSaved EXCEPT ![newName] = favSaved[oldName],
                                                      ![oldName] = <<>>]
                                ELSE favSaved
     /\ UNCHANGED <<readerVars, applyVars, ensureVars, listVars, statsVars, flatVars>>

\* the calls of the favourites module, one after the other
NextFavorites ==
  \/ \E n \in FavNames, p \in FavPasswords : addFavoriteServer(n, p)
  \/ \E n \in FavNames : updateServerLastUsed(n)
  \/ \E n \in FavNames, d \in FavDirectories : updateServerLastDirectory(n, d)
  \/ \E n \in FavNames, d \in FavDirectories \cup {""} : updateServerLastRootDirectory(n, d)
  \/ \E n \in FavNames : removeFavoriteServer(n)
  \/ \E n \in FavNames, m \in FavNames : renameFavoriteServer(n, m)

SpecFavorites == Init /\ [][NextFavorites]_vars

----------------------------------------------------------------------------
(* Claims *)

PoolClients == { connectionPool[i].client : i \in 1..Len(connectionPool) }

InUseEntries == { i \in 1..Len(connectionPool) : connectionPool[i].inUse }

\* every attempt of p's call so far has failed, each with a transient-classified error
AllTransient(p) ==
  /\ attempts[p] >= 1
  /\ Len(fails[p]) = attempts[p]
  /\ \A i \in 1..Len(fails[p]) : fails[p][i] = "transient"

\* C1: no client is returned by two checkouts without a release in between: at
\* any time at most one caller holds a given pooled session.
C1_ExclusiveBorrow == \A c \in ClientIds : outstanding[c] <= 1

\* C2: the tracked pool never holds more than MAX_CONCURRENT_CONNECTIONS (5)
\* entries, and so never more than 5 entries in use.
C2_PoolBound ==
  /\ Len(connectionPool) <= 5
  /\ Cardinality(InUseEntries) <= 5

\* C3: when a reader call has returned, the pool entry it checked out is no longer
\* marked inUse.
C3_ReleasedOnReturn ==
  \A p \in Callers :
    (pc[p] = "returned" /\ borrowed[p] # 0) =>
      \A i \in 1..Len(connectionPool) :
        connectionPool[i].client = borrowed[p] => ~connectionPool[i].inUse

\* C4: a call whose every attempt fails with a transient-classified error makes
\* exactly 3 attempts and then returns a failure; it waits 1000 ms before the
\* second attempt and 2000 ms before the third, and does not wait after the third.
C4_RetryBudget ==
  \A p \in Callers :
    AllTransient(p) =>
      /\ attempts[p] <= 3
      /\ pc[p] \in {"backoff", "returned"}
      /\ pc[p] = "backoff" => attempts[p] < 3 /\ Len(waits[p]) = attempts[p]
      /\ pc[p] = "returned" =>
           attempts[p] = 3 /\ ~result[p].isSuccess /\ waits[p] = <<1000, 2000>>
      /\ \A n \in 1..Len(waits[p]) : waits[p][n] = 1000 * n

C4_Witness ==
  \E p \in Callers : AllTransient(p) /\ pc[p] = "returned" /\ attempts[p] = 3

\* C5: a reader starts a further attempt only after an attempt that failed with a
\* transient-classified SFTP initialisation failure (or its timeout); no other
\* failure, a failure to establish the SSH connection included, is followed by
\* another attempt.
C5_RetryOnlyAfterTransient ==
  \A p \in Callers :
    \A i \in 1..Len(fails[p]) : i < attempts[p] => fails[p][i] = "transient"

\* C6: when the first attempt fails with a permanent error after SFTP
\* initialisation succeeded, the call returns that failure at once: one attempt, no
\* backoff wait, no second connection.
C6_PermanentNoRetry ==
  \A p \in Callers :
    (Len(fails[p]) >= 1 /\ fails[p][1] = "permanent") =>
      /\ pc[p] = "returned"
      /\ ~result[p].isSuccess
      /\ attempts[p] = 1
      /\ waits[p] = <<>>
      /\ fresh[p] = {}

\* C7: every session a reader call created outside the pool for a retry has been
\* closed (client.end()) by the time the call returns.
C7_RetrySessionsClosed ==
  \A p \in Callers :
    pc[p] = "returned" => \A c \in fresh[p] : ended[c] >= 1

\* C8: right after the sweep of a checkout no entry older than 5 minutes is in the
\* pool, and the transport of a pooled session is closed exactly once over its
\* life: never twice, and once by the time its entry has left the pool.
C8_EvictedClosedOnce ==
  /\ \A p \in Callers :
       pc[p] \in {"probe", "createNew", "createOverLimit"} =>
         \A i \in 1..Len(connectionPool) :
           tnow[p] - connectionPool[i].lastUsed <= 5 * 60 * 1000
  /\ \A c \in ClientIds :
       (clientState[c] = "ready" /\ \A p \in Callers : c \notin fresh[p]) =>
         /\ ended[c] <= 1
         /\ c \notin PoolClients => ended[c] = 1

\* C9: when the liveness probe of a matched idle entry fails or times out, the
\* entry's client is closed and the entry removed from the pool, that checkout goes
\* on to create one new session, and no checkout returns that client from then on;
\* when the probe succeeds the entry is marked inUse, its lastUsed is refreshed and
\* its client is the one returned.
C9_ProbeOutcome ==
  /\ [](\A c \in probeFailed : ended[c] >= 1 /\ c \notin PoolClients)
  /\ [](\A p \in Callers :
          pc[p] = "createAfterProbe" =>
            creates[p] = 1 /\ clientState[creating[p]] = "connecting")
  /\ [][\A p \in Callers :
          /\ (pc[p] = "probe" /\ pc'[p] = "sftp") =>
               /\ client'[p] = connection[p]
               /\ \E i \in 1..Len(connectionPool') :
                    /\ connectionPool'[i].client = connection[p]
                    /\ connectionPool'[i].inUse
                    /\ connectionPool'[i].lastUsed = tnow[p]
          /\ (pc[p] = "probe" /\ pc'[p] \notin {"probe", "sftp"}) =>
               /\ pc'[p] = "createAfterProbe"
               /\ ended'[connection[p]] = ended[connection[p]] + 1
               /\ connection[p] \notin PoolClients'
          /\ (borrowed'[p] # borrowed[p] /\ borrowed'[p] # 0) =>
               borrowed'[p] \notin probeFailed']_vars

C9_Witness ==
  \E p \in Callers, q \in Callers :
    /\ pc[p] = "createAfterProbe"
    /\ probeFailed # {}
    /\ pc[q] = "sftp" /\ attempts[q] = 1 /\ creates[q] = 0 /\ borrowed[q] # 0

\* C10: when session creation fails inside getConnectionFromPool, the checkout
\* throws "SSH connection failed: <transport message>" after exactly one
\* creation attempt and adds no entry for the failed session: every pool entry
\* refers to a session that reached 'ready'.
C10_CreationFailure ==
  /\ \A i \in 1..Len(connectionPool) :
       clientState[connectionPool[i].client] = "ready"
  /\ \A p \in Callers :
       (creating[p] # 0 /\ clientState[creating[p]] = "failed" /\ attempts[p] = 1) =>
         /\ creates[p] = 1
         /\ thrown[p] = <<"SSH connection failed: ", clientError[creating[p]]>>
         /\ clientError[creating[p]] \in ConnectErrors
         /\ creating[p] \notin PoolClients
         /\ pc[p] = "backoff"

C10_Witness ==
  \E p \in Callers :
    /\ creating[p] # 0
    /\ clientState[creating[p]] = "failed"
    /\ attempts[p] = 1
    /\ connectionPool # <<>>

\* C11: a checkout made while the pool already holds 5 entries, none of them an
\* idle match, never waits: it creates a new session and returns it, and it
\* leaves the tracked pool unchanged (the over-limit session is not inserted
\* into connectionPool).
C11_OverLimitUntracked ==
  [][\A p \in Callers :
       (pc[p] = "createOverLimit" /\ pc'[p] = "sftp") =>
         /\ client'[p] = creating[p]
         /\ clientState'[creating[p]] = "ready"
         /\ connectionPool' = connectionPool]_vars

\* C12: every public entry point ends, for every input and every failure of the
\* underlying I/O, by returning a success-or-failure result value; no exception
\* or rejected promise reaches its caller.  For applyChangesAction: the call
\* never ends by throwing.
C12_NoExceptionCrossesBoundary ==
  /\ apc # "thrown"
  /\ athrown = <<>>

\* an operation of the batch is in progress: its applier was called and has
\* neither settled nor finished its I/O
InProgress ==
  \/ promise = "pending"
  \/ lpc \in {"mkdir", "write", "rm"}
  \/ rpc \in {"connecting", "sftpInit", "ensure", "write", "unlink"}

\* C13: applyChangesAction applies the operations of one change-set strictly in
\* the parser's order: the operations started so far are 1, 2, ..., idx, each
\* once; operation i+1 is started only after operation i has completed (so at
\* most one is in progress); and a batch that returns has started every
\* operation of the list.
C13_InOrderOneAtATime ==
  /\ [](/\ idx = Len(startedOps)
        /\ Len(startedOps) <= Len(changes)
        /\ \A k \in 1..Len(startedOps) : startedOps[k] = k
        /\ apc = "returned" => idx = Len(changes) /\ ~InProgress
        /\ promise = "pending" => apc = "applying")
  /\ [][startedOps' # startedOps /\ startedOps' # <<>> =>
          /\ apc = "applying"
          /\ startedOps' = Append(startedOps, idx + 1)
          /\ idx > 0 => promise = "resolved" /\ ~InProgress]_vars

C13_Witness ==
  /\ apc = "applying"
  /\ startedOps = <<1, 2, 3>>
  /\ InProgress

\* the document holds a CREATE or UPDATE entry without content
Contentless(xml) ==
  \E k \in 1..Len(xml.records) :
    NeedsContent(xml.records[k]) /\ ~xml.records[k].hasCode

RequestError(r) ==
  IF ~parseXmlString(r.xml).isArray
    THEN <<"Invalid XML format. Could not find changed_files.">>
    ELSE IF FinalDirectory(r).blank
      THEN <<"No project directory provided and no fallback ", "found in environment.">>
      ELSE IF r.isRemote /\ ~r.sshConfig.present
        THEN <<"SSH configuration is required for remote ", "file operations.">>
        ELSE <<>>

\* C15: if the change-set document is malformed (the parser yields no operation
\* list), or no project directory is given, or the target is remote without an
\* SSH configuration, applyChangesAction fails before any applier is invoked:
\* no operation is started, no local file is written or removed and no remote
\* connection is opened.
C15_FailsBeforeAnyApplier ==
  /\ [](apc # "idle" /\ RequestError(areq) # <<>> =>
          /\ apc \in {"parsing", "thrown"}
          /\ apc = "thrown" => athrown = RequestError(areq)
          /\ startedOps = <<>>
          /\ lpc = "none" /\ rpc = "none" /\ promise = "none"
          /\ connects = 0)
  /\ [][RequestError(areq') # <<>> => dirs' = dirs /\ files' = files]_vars

C15_Witness ==
  /\ ~areq.xml.wellFormed
  /\ apc = "thrown"
  /\ files # {}

\* the directories a, a/b, a/b/c under the target root of the request, and the file
ChainFile == Join(finalDirectory, ChainDoc.records[1].file_path)
ChainDirs == Ancestors(Dirname(ChainFile)) \ Ancestors(finalDirectory)

\* C16: applying a CREATE for a/b/c/file.txt against any existing target root
\* (local or remote; absolute, relative, or the filesystem root) succeeds, and
\* afterwards the three directories exist and the file holds exactly the given
\* content.
C16_ChainCreated ==
  areq.xml = ChainDoc /\ apc \in {"applying", "returned", "thrown"} =>
    /\ promise # "rejected"
    /\ apc # "thrown"
    /\ apc = "returned" =>
         /\ ChainDirs \subseteq dirs
         /\ [path |-> ChainFile, content |-> ChainDoc.records[1].file_code] \in files

\* C17: applying a DELETE for a path that does not exist returns success on both
\* backends and leaves the target tree unchanged (so that applying it twice ends
\* as applying it once): the operation is never rejected.
C17_DeleteMissingSucceeds ==
  (/\ apc \in {"applying", "thrown"}
   /\ idx > 0
   /\ ToUpperCase(CurrentChange.file_operation) = "DELETE"
   /\ ~FileExists(files, FullPath)) =>
    promise # "rejected"

\* C19: in applyRemoteFileChanges the session is closed only after the operation
\* has completed or failed: client.end() is never issued while an SFTP request
\* of the operation (stat, mkdir, write or unlink) still waits for its response.
C19_EndAfterCompletion ==
  rended > 0 => rpc \notin {"ensure", "write", "unlink"}

\* C18: every applyRemoteFileChanges call whose session reached 'ready'
\* eventually closes that session (client.end()), on every outcome of the
\* operation; and once the call has resolved, the end has been issued.
C18_SessionClosed ==
  /\ [](rready /\ promise = "resolved" => rended >= 1)
  /\ (rready ~> rended >= 1)

C18_Witness ==
  /\ rready
  /\ rended = 1
  /\ rpc = "over"
  /\ promise = "rejected"
  /\ rejection[1] = "Error writing to "

\* the state of the apply call in the machine
\* Idle -> Connecting -> (Ready -> Executing -> Closed | ConnectFailed)
ApplyState ==
  CASE rpc = "none" -> "Idle"
    [] rpc = "connecting" -> "Connecting"
    [] rpc = "failed" -> "ConnectFailed"
    [] rpc = "sftpInit" -> "Ready"
    [] rpc \in {"ensure", "write", "unlink"} -> "Executing"
    [] OTHER -> "Closed"

\* a remote operation of the batch has been handed to applyRemoteFileChanges
RemoteCall == apc \in {"applying", "thrown"} /\ idx > 0 /\ areq.isRemote

\* C20: each applyRemoteFileChanges call follows
\* Idle -> Connecting -> (Ready -> Executing -> Closed | ConnectFailed): at most
\* one connection attempt, Executing entered only from Ready, no retry,
\* ConnectFailed and Closed terminal, and every failure of the call reached
\* through one of these states (a rejected call is in ConnectFailed or Closed).
C20_ApplyStateMachine ==
  /\ [](connects <= 1)
  /\ [](RemoteCall /\ promise = "rejected" => ApplyState \in {"ConnectFailed", "Closed"})
  /\ [][/\ (ApplyState' = "Connecting" /\ ApplyState # "Connecting") =>
             ApplyState = "Idle" \/ idx' # idx
        /\ (ApplyState' = "Ready" /\ ApplyState # "Ready") => ApplyState = "Connecting"
        /\ (ApplyState' = "Executing" /\ ApplyState # "Executing") => ApplyState = "Ready"
        /\ (ApplyState' = "Closed" /\ ApplyState # "Closed") => ApplyState = "Executing"
        /\ (ApplyState \in {"ConnectFailed", "Closed"} /\ idx' = idx /\ acalls' = acalls) =>
             ApplyState' = ApplyState]_vars

\* the files of a tree fs after the first n operations of ops were applied with
\* success under the target root
RECURSIVE AppliedFiles(_, _, _, _)
AppliedFiles(fs, ops, root, n) ==
  IF n = 0 THEN fs
  ELSE LET before == AppliedFiles(fs, ops, root, n - 1)
           p == Join(root, ops[n].file_path)
           others == { f \in before : f.path # p }
       IN IF NeedsContent(ops[n])
            THEN others \cup { [path |-> p, content |-> ops[n].file_code] }
            ELSE IF ToUpperCase(ops[n].file_operation) = "DELETE"
              THEN others
              ELSE before

\* C22: when operation k of a change-set fails, the effects of operations
\* 1..k-1 remain in the target tree: after the throw every path other than the
\* one of operation k is as operations 1..k-1 left it, no directory is ever
\* removed, and nothing is undone afterwards.
C22_NoRollback ==
  /\ [](apc = "thrown" /\ idx >= 1 =>
          RemoveFile(files, FullPath) =
            RemoveFile(AppliedFiles(files0, changes, finalDirectory, idx - 1), FullPath))
  /\ [][dirs \subseteq dirs']_vars
  /\ [][apc = "thrown" /\ apc' = "thrown" => files' = files]_vars

C22_Witness ==
  /\ apc = "thrown"
  /\ idx = 2
  /\ changes[1].file_path # changes[2].file_path
  /\ files # files0
  /\ files = AppliedFiles(files0, changes, finalDirectory, 1)

\* C23: when operation k of a change-set fails, only that operation is aborted:
\* the batch is not aborted, and operations k+1..n are still applied.  So a
\* batch that passed the request-level checks and has ended has handed every
\* operation of the list to an applier.
C23_BatchContinues ==
  apc \in {"returned", "thrown"} /\ RequestError(areq) = <<>> =>
    Len(startedOps) = Len(changes)

\* the call of caller p has returned because reading the identity file failed
KeyFailed(p) ==
  /\ pc[p] = "returned"
  /\ fails[p] # <<>>
  /\ fails[p][Len(fails[p])] = "key"

\* C25 (as stated): if reading the identity file fails, the reader returns a
\* failure result immediately: exactly one attempt is made, no SSH session is
\* created or checked out, and no backoff wait occurs.
C25_KeyFailureFirstAttempt ==
  \A p \in Callers :
    KeyFailed(p) =>
      /\ ~result[p].isSuccess
      /\ attempts[p] = 1
      /\ waits[p] = <<>>
      /\ borrowed[p] = 0 /\ fresh[p] = {} /\ client[p] = 0

\* C25 (amended): a failed read of the identity file ends the call at once with
\* the failure result "Failed to read identity file: ...": the step creates no
\* session, starts no further attempt and requests no backoff wait.  When the
\* read fails at the first attempt of the call, exactly one attempt was made, no
\* session was created or checked out, no wait occurred and the pool is
\* unchanged.  (The key is read again at every retry, so the read can also fail
\* after attempts that created sessions and waited.)
C25_KeyFailureReturnsAtOnce ==
  /\ [](\A p \in Callers :
          KeyFailed(p) =>
            /\ ~result[p].isSuccess
            /\ result[p].message[1] = "Failed to read identity file: "
            /\ attempts[p] = 1 =>
                 /\ waits[p] = <<>>
                 /\ borrowed[p] = 0 /\ fresh[p] = {} /\ client[p] = 0
                 /\ creates[p] = 0)
  /\ [][\A p \in Callers :
          (pc[p] = "readKey" /\ fails'[p] # fails[p]) =>
            /\ pc'[p] = "returned"
            /\ attempts'[p] = attempts[p]
            /\ waits'[p] = waits[p]
            /\ clientState' = clientState
            /\ attempts[p] = 1 => connectionPool' = connectionPool]_vars

C25_Witness ==
  \E p \in Callers :
    /\ KeyFailed(p)
    /\ attempts[p] = 1
    /\ connectionPool # <<>>

\* two configurations name the same (host, port with default 22, username)
SameTriple(a, b) ==
  /\ a.host = b.host
  /\ (IF a.port = 0 THEN DEFAULT_PORT ELSE a.port) =
       (IF b.port = 0 THEN DEFAULT_PORT ELSE b.port)
  /\ a.username = b.username

\* the pool entries of client c
EntriesOf(c) == { i \in 1..Len(connectionPool) : connectionPool[i].client = c }

\* C26: pool lookup matches on (host, port with default 22, username) only.  A
\* checkout finds an idle valid entry of the same triple whatever its password;
\* and a caller never receives from the pool a session whose entry was made for
\* a configuration that differs in an element of the triple.
C26_LookupByTriple ==
  /\ [](\A p \in Callers :
          (pc[p] = "sftp" /\ creates[p] = 0 /\ borrowed[p] # 0) =>
            \A i \in EntriesOf(borrowed[p]) :
              SameTriple(connectionPool[i].config, req[p].config))
  /\ [][\A p \in Callers :
          (/\ pc[p] \in {"idle", "returned"}
           /\ pc'[p] \notin {"idle", "returned"}
           /\ ~req'[p].identityFile
           /\ \E i \in 1..Len(connectionPool') :
                /\ ~connectionPool'[i].inUse
                /\ connectionPool'[i].isValid
                /\ SameTriple(connectionPool'[i].config, req'[p].config)) =>
            pc'[p] = "probe"]_vars

\* the Clients the readers and the pool refer to
ReaderClients ==
  PoolClients
    \cup { client[p] : p \in Callers } \cup { connection[p] : p \in Callers }
    \cup { creating[p] : p \in Callers } \cup { borrowed[p] : p \in Callers }

\* C21: applyRemoteFileChanges opens its own new session for every invocation
\* and neither reads nor modifies the shared connection pool: the session of an
\* apply is never one that is in the pool or that a reader call holds, and no
\* step of an apply call changes connectionPool.
C21_ApplyOutsidePool ==
  /\ [](aclient # 0 => aclient \notin ReaderClients)
  /\ [][applyVars' # applyVars => connectionPool' = connectionPool]_vars

C21_Witness ==
  /\ aclient # 0
  /\ rpc = "write"
  /\ connectionPool # <<>>
  /\ pc[1] = "body"

\* C24: ensuring a remote directory that already exists is not an error:
\* ensureRemoteDirectoryExists requests no mkdir when the path exists, and it
\* never fails on a directory that exists, also when a concurrent apply call
\* created it between this call's stat and its mkdir.
C24_ExistingDirectoryIsNoError ==
  /\ epc = "rejected" => TopFrame \notin edirs
  /\ \A k \in 1..Len(emkdirs) : epc = "resolved" => emkdirs[k] \in edirs

\* C27: a recursive listing does not settle, with success or with failure,
\* while a subdirectory listing or a file read that it started is in flight.
C27_JoinBeforeSettle ==
  lstate[ListRoot] \in {"resolved", "rejected"} => ~ListInFlight

\* the entries of the listing's result
ResultEntries == { lresult[i] : i \in 1..Len(lresult) }

\* C28: with includeContent, a content-read failure of one file does not fail
\* the traversal: the listing fails only when a readdir failed, and a listing
\* that succeeded holds every file, the failed ones with content absent and
\* every other one with its content.
C28_ContentFailureTolerated ==
  /\ lstate[ListRoot] = "rejected" => \E d \in ListDirs : lout[d] = "fail"
  /\ lstate[ListRoot] = "resolved" /\ linc =>
       \A f \in ListFiles :
         /\ fout[f] \in {"ok", "fail"}
         /\ [path |-> f, isDirectory |-> FALSE,
             content |-> IF fout[f] = "ok" THEN RemoteContent(f) ELSE Absent]
              \in ResultEntries
         /\ \A e \in ResultEntries : e.path = f =>
              e.content = (IF fout[f] = "ok" THEN RemoteContent(f) ELSE Absent)

C28_Witness ==
  /\ lstate[ListRoot] = "resolved"
  /\ linc
  /\ fout["/r/f1"] = "fail"
  /\ fout["/r/d1/g1"] = "ok"
  /\ [path |-> "/r/f1", isDirectory |-> FALSE, content |-> Absent] \in ResultEntries

\* the files whose read succeeded, and the sum of a count over them
ReadableFiles == {i \in 1..Len(sout) : sout[i] = "ok"}
ExpectedLines == SumSeq([i \in 1..Len(sout) |-> IF sout[i] = "ok" THEN Lines(StatContent(i)) ELSE 0])
ExpectedCharacters == SumSeq([i \in 1..Len(sout) |-> IF sout[i] = "ok" THEN Characters(StatContent(i)) ELSE 0])
ExpectedTokens == SumSeq([i \in 1..Len(sout) |-> IF sout[i] = "ok" THEN Tokens(smode, StatContent(i)) ELSE 0])

\* C29: in getFileStats and getRemoteFileStats a read failure of one file does
\* not abort the computation: the call returns success, a failed file adds
\* nothing to lines, characters, tokens and the file count, and every readable
\* file adds its own counts exactly once.
C29_FailedFileCountsZero ==
  spc = "returned" =>
    /\ sret.isSuccess
    /\ sret.lines = ExpectedLines
    /\ sret.characters = ExpectedCharacters
    /\ sret.tokens = ExpectedTokens
    /\ sret.files = Cardinality(ReadableFiles)

\* C30: during getRemoteFileStats at most 5 reads are in flight, and a read of
\* a later batch of 5 is in flight or settled only when every read of the
\* earlier batches has settled.
C30_BatchesOfFive ==
  smode = "remote" =>
    /\ Cardinality(sflight) <= 5
    /\ \A i \in 1..Len(sout), j \in 1..Len(sout) :
         /\ (i \in sflight \/ sout[i] # "none")
         /\ (j - 1) \div 5 < (i - 1) \div 5
         => j \notin sflight /\ sout[j] # "none"

C30_Witness ==
  /\ smode = "remote"
  /\ spc = "reading"
  /\ 6 \in sflight
  /\ sout[2] = "fail"
  /\ sout[5] = "ok"

\* C32: the pool sweep evicts only idle entries: a session is never closed
\* underneath, nor its entry removed from the pool under, a caller that
\* borrowed it and is still reading through it, however long it holds it.
C32_SweepSparesCheckedOut ==
  \A p \in Callers :
    pc[p] = "body" /\ holding[p] # 0 =>
      /\ ended[holding[p]] = 0
      /\ \E i \in 1..Len(connectionPool) : connectionPool[i].client = holding[p]

\* C35: getConnectionFromPool never returns a client whose transport this
\* program has already closed (by the sweep, by a failed probe, or by a reader's
\* client.end() after a transient failure): at the step where a checkout
\* returns, the returned client has never been ended.
C35_NeverReturnsClosedClient ==
  [][\A p \in Callers :
       /\ pc[p] \in {"probe", "createNew", "createAfterProbe", "createOverLimit"}
       /\ pc'[p] = "sftp"
       => ended'[client'[p]] = 0 /\ ended[client'[p]] = 0]_vars

\* a checkout returned a new session after the probe rejected an entry whose
\* transport a reader had closed before it was released
C35_Witness ==
  /\ pc[1] = "sftp"
  /\ retryCount[1] = 0
  /\ creates[1] = 1
  /\ \E c \in probeFailed : ended[c] >= 2
  /\ ended[client[1]] = 0

\* C31: a successful non-recursive listing returns exactly one entry per raw
\* record, in the same order, with name and path (listed path, "/", name) of the
\* record, size 0 when the record has no size and modifyTime the epoch when it
\* has no mtime.
C31_FlatListingMapsRecords ==
  dpc = "listed" =>
    /\ Len(dentries) = Len(dlist)
    /\ \A i \in 1..Len(dlist) :
         /\ dentries[i].name = dlist[i].filename
         /\ dentries[i].path = dpath \o "/" \o dlist[i].filename
         /\ dlist[i].size = <<>> => dentries[i].size = 0
         /\ dlist[i].size # <<>> => dentries[i].size = dlist[i].size[1]
         /\ dlist[i].mtime = <<>> => dentries[i].modifyTime = 0
         /\ dlist[i].mtime # <<>> => dentries[i].modifyTime = 1000 * dlist[i].mtime[1]

C31_Witness ==
  /\ dpc = "listed"
  /\ Len(dlist) = 3
  /\ dlist[1].size = <<>> /\ dentries[1].size = 0
  /\ dlist[2].mtime = <<>> /\ dentries[2].modifyTime = 0
  /\ dlist[3].filename = "a.txt" /\ dentries[3].path = "/srv/app/a.txt"

\* C34: an entry's isDirectory is true exactly when the file-type bits of the
\* record's mode (mode & 0o170000) denote a directory (0o040000); a regular
\* file, symlink, socket, block or character device, or a record without a
\* mode, has isDirectory false.
C34_IsDirectoryFromFileType ==
  dpc = "listed" =>
    \A i \in 1..Len(dlist) :
      dentries[i].isDirectory
        <=> (dlist[i].mode # <<>> /\ BitAnd(dlist[i].mode[1], 61440) = 16384)

\* the directories a path lies under
RECURSIVE Above(_)
Above(x) == IF x = ListRoot THEN {} ELSE {ListParent[x]} \cup Above(ListParent[x])

\* C38: a successful recursive listing returns exactly the non-directory
\* entries of the whole tree under the listed path, each once, the entries of a
\* directory's subdirectories before the directory's own files; directories
\* themselves are not part of the result.
C38_RecursiveListingIsFilesOfTree ==
  lstate[ListRoot] = "resolved" =>
    /\ { lresult[i].path : i \in 1..Len(lresult) } = ListFiles
    /\ \A i \in 1..Len(lresult), j \in 1..Len(lresult) :
         lresult[i].path = lresult[j].path => i = j
    /\ \A i \in 1..Len(lresult) : ~lresult[i].isDirectory
    /\ \A i \in 1..Len(lresult), j \in 1..Len(lresult) :
         /\ ListParent[lresult[i].path] \in Above(lresult[j].path)
         /\ ListParent[lresult[i].path] # ListParent[lresult[j].path]
         => j < i

C38_Witness ==
  /\ lstate[ListRoot] = "resolved"
  /\ lresult[1].path = "/r/d1/e/h1"
  /\ lresult[2].path = "/r/d1/g1"
  /\ lresult[3].path = "/r/f1"

\* the loop is at a CREATE or UPDATE whose content is the empty string
EmptyContentOp ==
  /\ idx >= 1
  /\ idx <= Len(changes)
  /\ changes[idx].file_operation \in {"CREATE", "create", "UPDATE", "update"}
  /\ changes[idx].hasCode
  /\ changes[idx].file_code = <<>>

\* C36: applyFileChanges and applyRemoteFileChanges treat a CREATE or UPDATE
\* whose content is the empty string like one without content: the operation
\* fails with the missing-content error before any directory is created or
\* file written, and the target tree is unchanged.
C36_EmptyContentRejected ==
  /\ [](EmptyContentOp =>
          /\ promise # "resolved"
          /\ lpc \notin {"mkdir", "write", "rm", "done"}
          /\ rpc \notin {"ensure", "write", "unlink"}
          /\ ~areq.isRemote =>
               promise = "rejected" /\ rejection[1] = "No file_code provided for "
          /\ (areq.isRemote /\ rpc = "over"
                /\ rejection[1] \notin {"SFTP error: ", "SSH connection error: "}) =>
               promise = "rejected" /\ rejection[1] = "No file_code provided for ")
  /\ [][EmptyContentOp' => dirs' = dirs /\ files' = files]_vars

C36_Witness ==
  /\ EmptyContentOp
  /\ areq.isRemote
  /\ rpc = "over"
  /\ promise = "rejected"
  /\ rejection[1] = "No file_code provided for "
  /\ files # {}

\* the loop is at an operation whose kind is none of CREATE, UPDATE, DELETE
UnknownKindOp ==
  /\ idx >= 1
  /\ idx <= Len(changes)
  /\ changes[idx].file_operation
       \notin {"CREATE", "create", "UPDATE", "update", "DELETE", "delete"}

OneUp(d) == [d EXCEPT !.segs = SubSeq(@, 1, Len(@) - 1)]

\* d and every directory above it, down to the root
ChainOf(d) == { [d EXCEPT !.segs = SubSeq(@, 1, k)] : k \in 0..Len(d.segs) }

\* C33: within one call of ensureRemoteDirectoryExists, sftp.mkdir is requested
\* for a directory only when the directory above it exists on the server (its
\* stat succeeded or its own mkdir did); the requests go from the shallowest
\* missing directory to the deepest, each one level below the one before; the
\* directory whose stat succeeded is never among them; and the call resolves,
\* which is when the file write starts, only when the target directory and
\* every directory above it exist.
C33_MkdirTopDownThenWrite ==
  /\ [][Len(emkdirs') > Len(emkdirs) =>
          /\ emkdirs' = Append(emkdirs, emkdirs'[Len(emkdirs')])
          /\ OneUp(emkdirs'[Len(emkdirs')]) \in edirs'
          /\ \/ epc = "stat" /\ TopFrame \in edirs
                /\ TopFrame = OneUp(emkdirs'[Len(emkdirs')])
             \/ epc = "mkdir" /\ TopFrame \in edirs' \ edirs
                /\ TopFrame = OneUp(emkdirs'[Len(emkdirs')])]_vars
  /\ [](\A k \in 1..Len(emkdirs) - 1 : OneUp(emkdirs[k + 1]) = emkdirs[k])
  /\ [][epc = "stat" /\ TopFrame \in edirs /\ epc' # "stat" =>
          \A k \in 1..Len(emkdirs') : emkdirs'[k] # TopFrame]_vars
  /\ [](\A k \in 1..Len(emkdirs) : emkdirs[k] # OneUp(emkdirs[1]))
  /\ [](epc = "resolved" => ChainOf(eframes[1]) \subseteq edirs)

C33_Witness ==
  /\ epc = "resolved"
  /\ eframes = << [abs |-> TRUE, segs |-> <<"srv", "app", "a", "b">>] >>
  /\ emkdirs = << [abs |-> TRUE, segs |-> <<"srv", "app", "a">>],
                  [abs |-> TRUE, segs |-> <<"srv", "app", "a", "b">>] >>

\* the paths whose read succeeded, in the order of filePaths: what
\* getRemoteFileStats collects in fileStats for these outcomes
ReadPaths ==
  SelectSeq([i \in 1..Len(spaths) |-> IF sout[i] = "ok" THEN spaths[i] ELSE ""],
            LAMBDA p : p # "")

\* the 'files' count each of the two functions reports for the paths and the
\* read outcomes of the call that returned
FilesReported(mode) == StatsResult(mode, stotal, spaths, ReadPaths).files

\* C39: for the same list of paths and the same read outcomes getFileStats and
\* getRemoteFileStats report the same 'files' count, the one the call returned:
\* the number of files whose read succeeded.
C39_SameFilesCountLocalRemote ==
  spc = "returned" =>
    /\ sret.files = FilesReported(smode)
    /\ FilesReported("local") = FilesReported("remote")
    /\ FilesReported("remote") = Len(ReadPaths)

\* a stored string made of hex digits only, two for each char of the password
EncryptedForm(stored, password) ==
  /\ Len(stored) = 2 * Len(password)
  /\ \A k \in 1..Len(stored) : HexValue(stored[k]) # -1

\* C40: after any sequence of calls of the favourites module,
\* getFavoriteServers returns for every stored favourite the password it was
\* last saved with, every stored password is in encrypted form, and a call
\* that adds or updates one favourite leaves the stored passwords of the
\* others as they were.
C40_FavoritePasswordsKept ==
  /\ [](\A i \in 1..Len(favStore) :
          /\ getFavoriteServers(favStore)[i].password = favSaved[favStore[i].name]
          /\ EncryptedForm(favStore[i].password, favSaved[favStore[i].name]))
  /\ [][\A i \in 1..Len(favStore), j \in 1..Len(favStore') :
          favStore[i].name = favStore'[j].name /\ favSaved'[favStore[i].name] = favSaved[favStore[i].name]
            => favStore'[j].password = favStore[i].password]_vars

====
